---- MODULE Spec2Model ----
(***************************************************************************)
(* Model of the ADX-adaptive trading bot: AdaptiveStrategyManager          *)
(* (main.py), ProfessionalRangingStrategy (professional_ranging.py),       *)
(* ProfessionalExecutor / GridPositionTracker (professional_executor.py),  *)
(* TradingStrategies (strategies.py) and the backtest loop of TradingBot.  *)
(*                                                                         *)
(* Numbers are fixed point.  Prices, ATR and grid widths are in 1/100      *)
(* (one unit = 0.01 USD); confidences, strengths and probabilities are in  *)
(* 1/1000; z-scores and autocorrelations in 1/100; lot sizes in 1/1000     *)
(* lot; money in 1/10000 USD; the wall clock in minutes.                   *)
(*                                                                         *)
(* A bar history (the DataFrame handed to the pipeline) is represented by  *)
(* the statistics the code reads from it: its length, the latest close and *)
(* ATR, the 40-bar high and low, the 20-bar and lookback ATR means, the    *)
(* 80-bar z-score, the lag-1 autocorrelation and the latest ADX.           *)
(***************************************************************************)
EXTENDS Integers, Sequences, FiniteSets, TLC

VARIABLES
    now,        \* wall clock read by pd.Timestamp.now(), minutes since midnight
    strategy,   \* ProfessionalRangingStrategy fields
    executor,   \* ProfessionalExecutor fields, with its GridPositionTracker
    manager,    \* AdaptiveStrategyManager fields
    ret,        \* what the last call returned (or the exception it raised)
    backtest,   \* locals of TradingBot._backtest_logic
    replay,     \* a second replay of the same bars (its own clock and objects)
    live        \* locals of TradingBot.main_loop, the orders it has placed and
                \* the positions the broker holds

vars == <<now, strategy, executor, manager, ret, backtest, replay, live>>

---------------------------------------------------------------------------
(* Bounds of the model *)

MaxTicks == 3           \* clock advances considered after the start
MaxSkip == 5            \* cap of the consecutive_skip counter
MaxBars == 3            \* bars replayed by a backtest run
MaxClosed == 1          \* closed grids kept by the tracker
MaxTrades == 3          \* trades logged by the executor
MaxLongBars == 8        \* bars replayed by a slow backtest run
MaxLiveMinutes == 21    \* minutes the live loop is followed
MaxAdxBars == 3         \* bars of a series handed to calculate_adx

(* Fixed-point scales and float specials *)
Milli == 10 * 100
INF == 1000 * 1000 * 1000      \* +inf of a float division x/0
NaN == 0 - 1000 * 1000 * 1000  \* nan of a float division 0/0
None == 0 - 1                  \* Python None where a number is expected
TickMinutes == 5 * 2           \* clock resolution of the model, minutes
ClockStart == 12 * 60 + 45     \* wall clock at construction (12:45)

(* Program constants *)
min_bars == 80                  \* main.py:51, professional_ranging.py:240
adx_threshold == 20             \* main.py:42
adx_strong == 40                \* main.py:84
min_trade_interval == 20        \* professional_ranging.py:25 (minutes)
max_consecutive_skip == 5       \* professional_ranging.py:27
grid_levels == 10               \* professional_ranging.py:13
min_layers == 4                 \* professional_ranging.py:135
max_grids_per_side == 4         \* professional_executor.py:226
max_positions == 6              \* config.py:20
timeframe == 15                 \* config.py:17 (minutes of a bar)
poll_minutes == 1               \* main.py:349 (time.sleep(60))
initial_capital == 100          \* main.py:35
initial_balance == 100          \* main.py:403
SPREAD == 30                    \* main.py:375 (0.3 USD)
warm_up == 300                  \* main.py:453
break_even_trigger == 6          \* config.py:54 (0.6, in tenths of ATR)
min_profit_move_sl == 1          \* config.py:56 (ATR multiples)
period == 14                     \* adx_analyzer.py:21 (Wilder period)
rsi_oversold == 38               \* config.py:29
rsi_overbought == 62             \* config.py:30
signal_threshold_buy == 2        \* config.py:39
signal_threshold_sell == 0 - 2   \* config.py:40
vol_threshold == 45              \* config.py:43 (0.45, in percent)

gold_key_levels == <<190000, 195000, 200000, 205000, 210000>>

AbsI(x) == IF x < 0 THEN -x ELSE x
MinI(a, b) == IF a < b THEN a ELSE b
MaxI(a, b) == IF a > b THEN a ELSE b
SetMin(S) == CHOOSE x \in S : \A y \in S : x <= y

RECURSIVE InsertSorted(_, _)
InsertSorted(s, x) ==
    IF s = <<>> THEN <<x>>
    ELSE IF x <= Head(s) THEN <<x>> \o s
    ELSE <<Head(s)>> \o InsertSorted(Tail(s), x)

RECURSIVE SortAsc(_)
SortAsc(s) == IF s = <<>> THEN <<>> ELSE InsertSorted(SortAsc(Tail(s)), Head(s))

Reverse(s) == [i \in 1..Len(s) |-> s[Len(s) + 1 - i]]

---------------------------------------------------------------------------
(* indicators.py: the columns calculate_all_indicators adds to the frame *)

CalculateAllIndicators ==
    {"EMA_8", "EMA_21", "EMA_100", "RSI", "MACD", "MACD_signal", "MACD_hist",
     "BB_upper", "BB_middle", "BB_lower", "ATR", "MOM", "STOCH_K", "STOCH_D"}

(* strategies.py: the first column trend_following_strategy reads *)
TrendFollowingFirstColumn == "EMA_20"

---------------------------------------------------------------------------
(* professional_ranging.py *)

NoGrid ==
    [valid |-> FALSE, buy_levels |-> <<>>, sell_levels |-> <<>>, grid_width |-> 0,
     total_range |-> 0, center |-> 0, volatility |-> "NORMAL", atr |-> 0]

DetectVolatilityRegime(h) ==
    IF h.n < 60 THEN "NORMAL"
    ELSE IF h.historical_atr = 0
         THEN (IF h.recent_atr > 0 THEN "HIGH" ELSE "NORMAL")
         ELSE IF h.recent_atr * 10 > h.historical_atr * 13 THEN "HIGH"
         ELSE IF h.recent_atr * 10 < h.historical_atr * 7 THEN "LOW"
         ELSE "NORMAL"

CalculateMeanReversionSignal(h) ==
    IF h.n < 80 THEN [signal |-> 0, strength |-> 0, zscore |-> 0]
    ELSE LET z == h.zscore
             strong == MinI((AbsI(z) * 1000) \div 350, 1000)
             weak == MinI((AbsI(z) * 1000) \div 300, 700) \div 2
         IN  IF z = NaN THEN [signal |-> 0, strength |-> 0, zscore |-> NaN]
             ELSE IF z < -200 THEN [signal |-> 1, strength |-> strong, zscore |-> z]
             ELSE IF z > 200 THEN [signal |-> -1, strength |-> strong, zscore |-> z]
             ELSE IF z < -150 THEN [signal |-> 1, strength |-> weak, zscore |-> z]
             ELSE IF z > 150 THEN [signal |-> -1, strength |-> weak, zscore |-> z]
             ELSE [signal |-> 0, strength |-> 0, zscore |-> z]

CalculateStatisticalReversal(h) ==
    IF h.n < 40 THEN [reversal_score |-> 0, is_valid |-> FALSE]
    ELSE IF h.autocorr # NaN /\ h.autocorr < -12
         THEN [reversal_score |-> AbsI(h.autocorr) * 10, is_valid |-> TRUE]
         ELSE [reversal_score |-> 0, is_valid |-> FALSE]

(* is_near_key_level: the first key level closer than 5.0, or 0 for None *)
IsNearKeyLevel(price) ==
    LET near == {k \in 1..Len(gold_key_levels) : AbsI(price - gold_key_levels[k]) < 500}
    IN  IF near = {} THEN 0 ELSE gold_key_levels[SetMin(near)]

GridCountFor(volatility) ==
    IF volatility = "HIGH" THEN (grid_levels * 9) \div 10
    ELSE IF volatility = "LOW" THEN (grid_levels * 8) \div 10
    ELSE grid_levels

BuyPrice(center, width, i) ==
    LET raw == center - width * (i + 1)
        key == IsNearKeyLevel(raw)
    IN  IF key # 0 THEN key - (width * 3) \div 10 ELSE raw

SellPrice(center, width, i) ==
    LET raw == center + width * (i + 1)
        key == IsNearKeyLevel(raw)
    IN  IF key # 0 THEN key + (width * 3) \div 10 ELSE raw

(* the clipping to the 40-bar range, the minimum of layers and the ordering  *)
(* of the levels that end build_dynamic_grid                                 *)
ClipLevels(h, grid_width, total_range, volatility, buy_raw, sell_raw) ==
    LET buys == SelectSeq(buy_raw, LAMBDA p : p * 100 >= h.recent_low * 97)
        sells == SelectSeq(sell_raw, LAMBDA p : p * 100 <= h.recent_high * 103)
    IN  IF Len(buys) < min_layers \/ Len(sells) < min_layers
        THEN NoGrid
        ELSE [valid |-> TRUE,
              buy_levels |-> Reverse(SortAsc(buys)),
              sell_levels |-> SortAsc(sells),
              grid_width |-> grid_width,
              total_range |-> total_range,
              center |-> h.close,
              volatility |-> volatility,
              atr |-> h.atr]

(* build_dynamic_grid: raised is "OverflowError" when int(total_range /     *)
(* grid_width) converts the infinity of a division by a zero width          *)
BuildDynamicGrid(h) ==
    IF h.n < 40 THEN [raised |-> "none", grid |-> NoGrid]
    ELSE
    LET center == h.close
        price_range == h.recent_high - h.recent_low
        atr == h.atr
        total_range == MaxI(MaxI((price_range * 8) \div 10, atr * 6), atr * 4)
        volatility == DetectVolatilityRegime(h)
        count0 == MaxI(6, MinI(GridCountFor(volatility), 12))
        width0 == total_range \div count0
        min_grid_width == (atr * 4) \div 10
        max_grid_width == (atr * 15) \div 10
        clamped == width0 < min_grid_width \/ width0 > max_grid_width
        grid_width == IF width0 < min_grid_width THEN min_grid_width
                      ELSE IF width0 > max_grid_width THEN max_grid_width
                      ELSE width0
        grid_count == IF ~clamped THEN count0
                      ELSE IF grid_width = 0 THEN 0
                      ELSE total_range \div grid_width
    IN  IF clamped /\ grid_width = 0
        THEN [raised |-> "OverflowError", grid |-> NoGrid]
        ELSE [raised |-> "none",
              grid |-> ClipLevels(h, grid_width, total_range, volatility,
                           [i \in 1..grid_count |-> BuyPrice(center, grid_width, i - 1)],
                           [i \in 1..grid_count |-> SellPrice(center, grid_width, i - 1)])]

(* index (from 1) of the first level the price touches, 0 when none *)
FirstTouchedBuy(levels, price) ==
    LET hit == {i \in 1..Len(levels) : price * 1000 <= levels[i] * 1004}
    IN  IF hit = {} THEN 0 ELSE SetMin(hit)

FirstTouchedSell(levels, price) ==
    LET hit == {i \in 1..Len(levels) : price * 1000 >= levels[i] * 996}
    IN  IF hit = {} THEN 0 ELSE SetMin(hit)

(* confidence of a touched level: max(0, 1 - distance/width)*0.6 + depth*0.4; *)
(* distance is level - price for a buy level and price - level for a sell     *)
TouchConfidence(distance, width, i, count) ==
    LET proximity == IF width = 0
                     THEN (IF distance < 0 THEN INF ELSE 0)
                     ELSE MaxI(0, 1000 - (distance * 1000) \div width)
        grid_depth == ((i - 1) * 1000) \div count
    IN  IF proximity = INF THEN INF ELSE (proximity * 6 + grid_depth * 4) \div 10

(* a minimum touch confidence that is relaxed after 3 skipped evaluations *)
MinConfidenceRelaxedEarly(skip) == IF skip >= 3 THEN 450 ELSE 550

MinConfidence(skip) == IF skip >= max_consecutive_skip THEN 450 ELSE 550

(* the touch loops of calculate_grid_trading_signal over the grid just built; *)
(* buy_min and sell_min are the values the local min_confidence takes in the *)
(* buy loop and in the sell loop, None when the loop touches no level        *)
TouchLoops(skip, price, built) ==
    LET g == built.grid
        b == FirstTouchedBuy(g.buy_levels, price)
        buy_conf == TouchConfidence(g.buy_levels[b] - price, g.grid_width, b,
                                    Len(g.buy_levels))
        buy_fires == b # 0 /\ buy_conf >= MinConfidence(skip)
        skip1 == IF buy_fires THEN 0 ELSE skip
        s == FirstTouchedSell(g.sell_levels, price)
        sell_conf == TouchConfidence(price - g.sell_levels[s], g.grid_width, s,
                                     Len(g.sell_levels))
        sell_fires == s # 0 /\ sell_conf >= MinConfidence(skip1)
        skip2 == IF sell_fires THEN 0 ELSE skip1
        signal == IF sell_fires THEN -1 ELSE IF buy_fires THEN 1 ELSE 0
        confidence == IF s # 0 THEN sell_conf ELSE IF b # 0 THEN buy_conf ELSE 0
    IN  IF built.raised # "none"
        THEN [raised |-> built.raised, signal |-> 0, confidence |-> 0, grid |-> NoGrid,
              skip |-> skip, buy_min |-> None, sell_min |-> None]
        ELSE IF ~g.valid
        THEN [raised |-> "none", signal |-> 0, confidence |-> 0, grid |-> NoGrid,
              skip |-> skip + 1, buy_min |-> None, sell_min |-> None]
        ELSE [raised |-> "none", signal |-> signal, confidence |-> confidence,
              grid |-> g, skip |-> IF signal = 0 THEN skip2 + 1 ELSE skip2,
              buy_min |-> IF b # 0 THEN MinConfidence(skip) ELSE None,
              sell_min |-> IF s # 0 THEN MinConfidence(skip1) ELSE None]

CalculateEdgeProbability(volatility_regime, skip, signal, zscore, reversal_score) ==
    LET zscore_edge ==
            IF zscore # NaN /\ ((signal = 1 /\ zscore < -180) \/ (signal = -1 /\ zscore > 180))
            THEN MinI((AbsI(zscore) * 10) \div 4, 350) ELSE 0
        autocorr_edge == (reversal_score * 25) \div 100
        vol_edge == IF volatility_regime = "NORMAL" THEN 250
                    ELSE IF volatility_regime = "LOW" THEN 150 ELSE 0
        grid_edge == 250
        skip_bonus == MinI(skip * 50, 150)
    IN  MinI(zscore_edge + autocorr_edge + vol_edge + grid_edge + skip_bonus + 350, 1000)

(* check_trade_cooldown with the comparison time_diff <= min_trade_interval *)
CheckTradeCooldownInclusive(last_trade_time, t) ==
    IF last_trade_time = None THEN TRUE
    ELSE IF t - last_trade_time <= min_trade_interval THEN FALSE
    ELSE TRUE

CheckTradeCooldown(last_trade_time, t) ==
    IF last_trade_time = None THEN TRUE
    ELSE IF t - last_trade_time < min_trade_interval THEN FALSE
    ELSE TRUE

HourOf(t) == (t \div 60) % 24

TimeFilter(t) == ~(13 <= HourOf(t) /\ HourOf(t) <= 19)

Blend(grid_confidence, mr_strength, win_prob) ==
    IF grid_confidence = INF THEN INF
    ELSE (grid_confidence * 4 + mr_strength * 3 + win_prob * 3) \div 10

NoDetails ==
    [status |-> "none", grid_signal |-> 0, grid_confidence |-> 0, grid_info |-> NoGrid,
     mr_signal |-> 0, mr_strength |-> 0, win_probability |-> 0, conditions_met |-> 0,
     grid_touch |-> FALSE, mr_agrees |-> FALSE, edge_ok |-> FALSE, reversal_ok |-> FALSE,
     time_ok |-> FALSE, buy_min |-> None, sell_min |-> None]

(* a gate that opens on a single condition *)
EnoughConditionsOne(conditions_met) == conditions_met >= 1

(* the gate "if conditions_met >= 2" on the count of conditions met *)
EnoughConditions(conditions_met) == conditions_met >= 2

(* the multi-condition decision of generate_professional_signal from the four *)
(* analyses vol, mr, rev, grid                                                *)
DecideSignal(S, t, vol, mr, rev, grid) ==
    LET win_prob == IF grid.signal # 0
                    THEN CalculateEdgeProbability(vol, grid.skip, grid.signal, mr.zscore,
                                                  rev.reversal_score)
                    ELSE 0
        c1 == grid.signal # 0 /\ grid.confidence > 500
        c2 == mr.signal = grid.signal /\ mr.signal # 0 /\ mr.strength > 250
        c3 == win_prob > 650
        c4 == rev.is_valid /\ rev.reversal_score > 150
        c5 == TimeFilter(t)
        conditions_met == Cardinality({k \in 1..5 : <<c1, c2, c3, c4, c5>>[k]})
        starving == grid.skip >= 3 /\ conditions_met >= 1
        signal == IF EnoughConditions(conditions_met) THEN grid.signal ELSE 0
        confidence == IF ~EnoughConditions(conditions_met) THEN 0
                      ELSE IF starving THEN MaxI(grid.confidence, 500)
                      ELSE Blend(grid.confidence, mr.strength, win_prob)
        S1 == [S EXCEPT !.volatility_regime = vol]
        S2 == [S1 EXCEPT !.dynamic_grid = grid.grid, !.consecutive_skip = grid.skip,
                         !.last_trade_time = IF signal # 0 THEN t ELSE @]
    IN  IF grid.raised # "none"
        THEN [raised |-> grid.raised, signal |-> 0, confidence |-> 0,
              details |-> NoDetails, strategy |-> S1]
        ELSE [raised |-> "none", signal |-> signal, confidence |-> confidence,
              details |-> [status |-> "evaluated", grid_signal |-> grid.signal,
                           grid_confidence |-> grid.confidence, grid_info |-> grid.grid,
                           mr_signal |-> mr.signal, mr_strength |-> mr.strength,
                           win_probability |-> win_prob, conditions_met |-> conditions_met,
                           grid_touch |-> c1, mr_agrees |-> c2, edge_ok |-> c3,
                           reversal_ok |-> c4, time_ok |-> c5,
                           buy_min |-> grid.buy_min, sell_min |-> grid.sell_min],
              strategy |-> S2]

(* calculate_grid_trading_signal that does not count a bar without a grid *)
CalculateGridTradingSignalUncounted(skip, h) ==
    LET r == TouchLoops(skip, h.close, BuildDynamicGrid(h))
    IN  IF r.raised = "none" /\ ~r.grid.valid THEN [r EXCEPT !.skip = skip] ELSE r

CalculateGridTradingSignal(skip, h) == TouchLoops(skip, h.close, BuildDynamicGrid(h))

(* a signal generator that classifies the volatility on its first call only *)
(* and afterwards reuses the regime it kept                                  *)
GenerateProfessionalSignalKeptRegime(S, h, t) ==
    IF h.n < min_bars
    THEN [raised |-> "none", signal |-> 0, confidence |-> 0,
          details |-> [NoDetails EXCEPT !.status = "insufficient"], strategy |-> S]
    ELSE IF ~CheckTradeCooldown(S.last_trade_time, t)
    THEN [raised |-> "none", signal |-> 0, confidence |-> 0,
          details |-> [NoDetails EXCEPT !.status = "cooldown"], strategy |-> S]
    ELSE DecideSignal(S, t,
                      IF S.volatility_regime = "None" THEN DetectVolatilityRegime(h)
                      ELSE S.volatility_regime,
                      CalculateMeanReversionSignal(h),
                      CalculateStatisticalReversal(h),
                      CalculateGridTradingSignal(S.consecutive_skip, h))

(* generate_professional_signal on strategy state S, history h, clock t *)
GenerateProfessionalSignal(S, h, t) ==
    IF h.n < min_bars
    THEN [raised |-> "none", signal |-> 0, confidence |-> 0,
          details |-> [NoDetails EXCEPT !.status = "insufficient"], strategy |-> S]
    ELSE IF ~CheckTradeCooldown(S.last_trade_time, t)
    THEN [raised |-> "none", signal |-> 0, confidence |-> 0,
          details |-> [NoDetails EXCEPT !.status = "cooldown"], strategy |-> S]
    ELSE DecideSignal(S, t, DetectVolatilityRegime(h), CalculateMeanReversionSignal(h),
                      CalculateStatisticalReversal(h),
                      CalculateGridTradingSignal(S.consecutive_skip, h))

---------------------------------------------------------------------------
(* professional_executor.py *)

NoGridId == [direction |-> "NONE", level |-> None]

FirstBuyLayer(levels, price) ==
    LET hit == {i \in 1..Len(levels) : price * 1000 <= levels[i] * 1010}
    IN  IF hit = {} THEN 0 ELSE SetMin(hit)

FirstSellLayer(levels, price) ==
    LET hit == {i \in 1..Len(levels) : price * 1000 >= levels[i] * 990}
    IN  IF hit = {} THEN 0 ELSE SetMin(hit)

(* GridPositionTracker.get_direction_count *)
GetDirectionCount(active_grids, direction) ==
    Cardinality({g \in DOMAIN active_grids : active_grids[g].direction = direction})

LossReduction(consecutive_losses) ==
    IF consecutive_losses = 1 THEN 85
    ELSE IF consecutive_losses = 2 THEN 70
    ELSE IF consecutive_losses >= 3 THEN 55
    ELSE 100

WinBonus(consecutive_wins) ==
    IF consecutive_wins = 1 THEN 105
    ELSE IF consecutive_wins = 2 THEN 110
    ELSE IF consecutive_wins >= 3 THEN 115
    ELSE 100

(* lot size of level index i (from 0), in 1/1000 lot:                        *)
(* round(0.01 * (0.9 + 0.35 i) * confidence * loss_reduction * win_bonus, 3) *)
(* clamped by max(min_lot, min(lot, balance / 4000))                         *)
GridLotSize(i, confidence, consecutive_losses, consecutive_wins, balance) ==
    LET lot_multiplier == 90 + i * 35
        x == lot_multiplier * confidence * LossReduction(consecutive_losses)
        y == (x \div 1000) * WinBonus(consecutive_wins)
        lot_size == IF confidence = INF THEN INF ELSE (y + 50000) \div 100000
        min_lot == 5
        max_lot == balance \div 40000
    IN  MaxI(min_lot, MinI(lot_size, max_lot))

(* streak counters that a flat trade leaves as they are *)
UpdateConsecutiveCountsFlatKept(E, pnl) ==
    IF pnl > 0
    THEN [E EXCEPT !.consecutive_wins = @ + 1, !.consecutive_losses = 0]
    ELSE IF pnl < 0
    THEN [E EXCEPT !.consecutive_losses = @ + 1, !.consecutive_wins = 0]
    ELSE E

(* update_consecutive_counts: the streak counters after a trade of that pnl *)
UpdateConsecutiveCounts(E, pnl) ==
    IF pnl > 0
    THEN [E EXCEPT !.consecutive_wins = @ + 1, !.consecutive_losses = 0]
    ELSE IF pnl < 0
    THEN [E EXCEPT !.consecutive_losses = @ + 1, !.consecutive_wins = 0]
    ELSE [E EXCEPT !.consecutive_wins = 0, !.consecutive_losses = 0]

(* executor.log_trade of a trade that carries a pnl, in 1/10000 USD *)
LogTrade(E, pnl) ==
    LET counted == UpdateConsecutiveCounts(E, pnl)
    IN  [counted EXCEPT !.balance = @ + pnl, !.trade_history = Append(@, pnl)]

(* a tracker that refuses a layer only once a side holds more than the cap *)
OpenGridPositionFifth(E, grid_id, level, price, lot_size, direction, t) ==
    IF grid_id \in DOMAIN E.active_grids THEN [executor |-> E, result |-> 0]
    ELSE IF GetDirectionCount(E.active_grids, direction) > max_grids_per_side
    THEN [executor |-> E, result |-> 0]
    ELSE [executor |->
              [E EXCEPT !.active_grids =
                  [g \in DOMAIN @ \cup {grid_id} |->
                      IF g = grid_id
                      THEN [level |-> level, entry_price |-> price, lot_size |-> lot_size,
                            direction |-> direction, open_time |-> t, status |-> "OPEN"]
                      ELSE @[g]]],
          result |-> 1]

(* GridPositionTracker.open_grid_position at clock t: the executor         *)
(* afterwards and the value returned, 1 for True and 0 for False           *)
OpenGridPosition(E, grid_id, level, price, lot_size, direction, t) ==
    IF grid_id \in DOMAIN E.active_grids THEN [executor |-> E, result |-> 0]
    ELSE IF GetDirectionCount(E.active_grids, direction) >= max_grids_per_side
    THEN [executor |-> E, result |-> 0]
    ELSE [executor |->
              [E EXCEPT !.active_grids =
                  [g \in DOMAIN @ \cup {grid_id} |->
                      IF g = grid_id
                      THEN [level |-> level, entry_price |-> price, lot_size |-> lot_size,
                            direction |-> direction, open_time |-> t, status |-> "OPEN"]
                      ELSE @[g]]],
          result |-> 1]

(* GridPositionTracker.close_grid_position: the executor afterwards and the *)
(* pnl returned, in 1/1000 USD                                              *)
CloseGridPosition(E, grid_id, close_price, t) ==
    IF grid_id \notin DOMAIN E.active_grids THEN [executor |-> E, result |-> 0]
    ELSE LET pos == E.active_grids[grid_id]
             pnl == IF pos.direction = "LONG"
                    THEN (close_price - pos.entry_price) * pos.lot_size
                    ELSE (pos.entry_price - close_price) * pos.lot_size
         IN  [executor |->
                  [E EXCEPT !.active_grids = [g \in DOMAIN @ \ {grid_id} |-> @[g]],
                            !.closed_grids =
                                Append(@, [level |-> pos.level,
                                           entry_price |-> pos.entry_price,
                                           lot_size |-> pos.lot_size,
                                           direction |-> pos.direction,
                                           open_time |-> pos.open_time,
                                           status |-> "CLOSED",
                                           close_price |-> close_price,
                                           close_time |-> t, pnl |-> pnl])],
              result |-> pnl]

(* manage_grid_positions that lets a side grow past max_grids_per_side *)
ManageGridPositionsPastCap(E, current_price, grid_info, signal, confidence) ==
    LET hold == [action |-> "HOLD", lot_size |-> 0, grid_id |-> NoGridId]
        b == FirstBuyLayer(grid_info.buy_levels, current_price)
        s == FirstSellLayer(grid_info.sell_levels, current_price)
        layer == IF signal = 1 THEN b ELSE IF signal = -1 THEN s ELSE 0
        direction == IF signal = 1 THEN "LONG" ELSE "SHORT"
        grid_id == [direction |-> direction, level |-> layer - 1]
    IN  IF ~grid_info.valid THEN hold
        ELSE IF layer = 0 THEN hold
        ELSE IF grid_id \in DOMAIN E.active_grids THEN hold
        ELSE IF GetDirectionCount(E.active_grids, direction) > max_grids_per_side THEN hold
        ELSE [action |-> IF signal = 1 THEN "BUY_GRID" ELSE "SELL_GRID",
              lot_size |-> GridLotSize(layer - 1, confidence, E.consecutive_losses,
                                       E.consecutive_wins, E.balance),
              grid_id |-> grid_id]

(* manage_grid_positions on executor state E *)
ManageGridPositions(E, current_price, grid_info, signal, confidence) ==
    LET hold == [action |-> "HOLD", lot_size |-> 0, grid_id |-> NoGridId]
        b == FirstBuyLayer(grid_info.buy_levels, current_price)
        s == FirstSellLayer(grid_info.sell_levels, current_price)
        layer == IF signal = 1 THEN b ELSE IF signal = -1 THEN s ELSE 0
        direction == IF signal = 1 THEN "LONG" ELSE "SHORT"
        grid_id == [direction |-> direction, level |-> layer - 1]
    IN  IF ~grid_info.valid THEN hold
        ELSE IF layer = 0 THEN hold
        ELSE IF grid_id \in DOMAIN E.active_grids THEN hold
        ELSE IF GetDirectionCount(E.active_grids, direction) >= max_grids_per_side THEN hold
        ELSE [action |-> IF signal = 1 THEN "BUY_GRID" ELSE "SELL_GRID",
              lot_size |-> GridLotSize(layer - 1, confidence, E.consecutive_losses,
                                       E.consecutive_wins, E.balance),
              grid_id |-> grid_id]

---------------------------------------------------------------------------
(* strategies.py *)

(* The latest row of the frame is the record of what the strategies read:   *)
(* ema = <<EMA_20, EMA_50, EMA_200>>, rsi, macd_hist, bb_position =          *)
(* (close - BB_lower) / (BB_upper - BB_lower) in percent (over 100 the close *)
(* is above the upper band, under 0 below the lower), prev_bb_position the   *)
(* same of the row before, atr_pct = ATR in percent of the mean of the last  *)
(* 20 ATR values, mom, stoch_k, stoch_d                                      *)

TrendFollowingStrategy(latest) ==
    IF latest.ema[1] > latest.ema[2] /\ latest.ema[2] > latest.ema[3]
       /\ latest.rsi < rsi_overbought /\ latest.macd_hist > 0
    THEN 1
    ELSE IF latest.ema[1] < latest.ema[2] /\ latest.ema[2] < latest.ema[3]
            /\ latest.rsi > rsi_oversold /\ latest.macd_hist < 0
    THEN 0 - 1
    ELSE 0

MeanReversionStrategy(latest) ==
    IF latest.rsi < rsi_oversold /\ latest.bb_position < 20 THEN 1
    ELSE IF latest.rsi > rsi_overbought /\ latest.bb_position > 80 THEN 0 - 1
    ELSE 0

BreakoutStrategy(latest) ==
    IF latest.bb_position > 100 /\ latest.prev_bb_position <= 100
       /\ latest.atr_pct > 100
    THEN 1
    ELSE IF latest.bb_position < 0 /\ latest.prev_bb_position >= 0
            /\ latest.atr_pct > 100
    THEN 0 - 1
    ELSE 0

MomentumStrategy(latest) ==
    IF latest.mom > 0 /\ latest.stoch_k > latest.stoch_d /\ latest.stoch_k < 80 THEN 1
    ELSE IF latest.mom < 0 /\ latest.stoch_k < latest.stoch_d /\ latest.stoch_k > 20
    THEN 0 - 1
    ELSE 0

StrategyVotes(latest) ==
    <<TrendFollowingStrategy(latest), MeanReversionStrategy(latest),
      BreakoutStrategy(latest), MomentumStrategy(latest)>>

(* signal_details: the vote of each strategy by name *)
SignalDetails(votes) ==
    [k \in 1..4 |-> IF votes[k] = 1 THEN "buy"
                    ELSE IF votes[k] = 0 - 1 THEN "sell" ELSE "neutral"]

(* a vote count that lets one strategy decide *)
GenerateCombinedSignalAnyVote(columns, votes) ==
    LET total_signal == votes[1] + votes[2] + votes[3] + votes[4]
    IN  IF TrendFollowingFirstColumn \notin columns
        THEN [raised |-> "KeyError", signal |-> 0]
        ELSE [raised |-> "none",
              signal |-> IF total_signal >= 1 THEN 1
                         ELSE IF total_signal <= 0 - 1 THEN 0 - 1 ELSE 0]

(* generate_combined_signal: the vote of the four strategies; "KeyError" when *)
(* trend_following_strategy reads a column the frame does not have            *)
GenerateCombinedSignal(columns, votes) ==
    LET total_signal == votes[1] + votes[2] + votes[3] + votes[4]
    IN  IF TrendFollowingFirstColumn \notin columns
        THEN [raised |-> "KeyError", signal |-> 0]
        ELSE [raised |-> "none",
              signal |-> IF total_signal >= signal_threshold_buy THEN 1
                         ELSE IF total_signal <= signal_threshold_sell THEN 0 - 1 ELSE 0]

---------------------------------------------------------------------------
(* main.py: AdaptiveStrategyManager *)

(* ADXAnalyzer.identify_market_type: type and strength of an ADX value *)
IdentifyMarketType(adx_value) ==
    IF adx_value < adx_threshold
    THEN [market_type |-> "RANGING", strength |-> "weak"]
    ELSE [market_type |-> "TRENDING",
          strength |-> IF adx_value >= adx_strong THEN "strong" ELSE "medium"]

(* analyze_market that calls a trend strong only above 40 *)
AnalyzeMarketAboveStrong(h) ==
    IF h.n < min_bars
    THEN [market_type |-> "RANGING", market_desc |-> "insufficient", adx |-> 0,
          classifier_ran |-> FALSE]
    ELSE [market_type |-> IF h.adx < adx_threshold THEN "RANGING" ELSE "TRENDING",
          market_desc |-> IF h.adx < adx_threshold THEN "ranging"
                          ELSE IF h.adx > adx_strong THEN "strong" ELSE "starting",
          adx |-> h.adx,
          classifier_ran |-> TRUE]

AnalyzeMarket(h) ==
    IF h.n < min_bars
    THEN [market_type |-> "RANGING", market_desc |-> "insufficient", adx |-> 0,
          classifier_ran |-> FALSE]
    ELSE [market_type |-> IF h.adx < adx_threshold THEN "RANGING" ELSE "TRENDING",
          market_desc |-> IF h.adx < adx_threshold THEN "ranging"
                          ELSE IF h.adx >= adx_strong THEN "strong" ELSE "starting",
          adx |-> h.adx,
          classifier_ran |-> TRUE]

NoReturn ==
    [raised |-> "none", returned |-> FALSE, signal |-> 0, confidence |-> 0,
     market_type |-> "NONE", market_desc |-> "none", adx |-> 0,
     classifier_ran |-> FALSE, n |-> 0,
     details |-> NoDetails, grid_action |-> "HOLD", grid_lot_size |-> 0,
     grid_id |-> NoGridId, result |-> None]

(* the RANGING branch of generate_signal once the professional signal ps is in *)
RangingDecision(M, h, base, manager1, ps) ==
    LET mg == ManageGridPositions(M.executor, h.close, ps.details.grid_info, ps.signal,
                                  ps.confidence)
    IN  IF ps.raised # "none"
        THEN [strategy |-> ps.strategy, manager |-> manager1,
              dec |-> [base EXCEPT !.raised = ps.raised]]
        ELSE IF h.n = 0
        THEN [strategy |-> ps.strategy, manager |-> manager1,
              dec |-> [base EXCEPT !.raised = "IndexError"]]
        ELSE [strategy |-> ps.strategy, manager |-> manager1,
              dec |-> [base EXCEPT !.returned = TRUE, !.signal = ps.signal,
                                   !.confidence = ps.confidence,
                                   !.details = ps.details,
                                   !.grid_action = mg.action,
                                   !.grid_lot_size = mg.lot_size,
                                   !.grid_id = mg.grid_id]]

(* the TRENDING branch of generate_signal; the frame has the columns of    *)
(* calculate_all_indicators unless the history names its own             *)
TrendingDecision(M, h, base, manager1, market_info) ==
    LET columns == IF "columns" \in DOMAIN h THEN h.columns ELSE CalculateAllIndicators
        cs == GenerateCombinedSignal(columns, h.votes)
    IN  IF cs.raised # "none"
        THEN [strategy |-> M.strategy, manager |-> manager1,
              dec |-> [base EXCEPT !.raised = cs.raised]]
        ELSE [strategy |-> M.strategy, manager |-> manager1,
              dec |-> [base EXCEPT !.returned = TRUE, !.signal = cs.signal,
                                   !.confidence = market_info.adx * 20,
                                   !.details = [NoDetails EXCEPT !.status = "trend"]]]

(* generate_signal on the objects M = [strategy, executor, manager]:          *)
(* the decision returned (or the exception raised) and the objects afterwards *)
GenerateSignal(M, h, t) ==
    LET market_info == AnalyzeMarket(h)
        manager1 == IF market_info.classifier_ran
                    THEN [current_market_type |-> market_info.market_type,
                          last_adx |-> market_info.adx]
                    ELSE M.manager
        base == [NoReturn EXCEPT !.market_type = market_info.market_type,
                                 !.market_desc = market_info.market_desc,
                                 !.adx = market_info.adx,
                                 !.classifier_ran = market_info.classifier_ran,
                                 !.n = h.n]
    IN  IF market_info.market_type = "RANGING"
        THEN RangingDecision(M, h, base, manager1,
                             GenerateProfessionalSignal(M.strategy, h, t))
        ELSE TrendingDecision(M, h, base, manager1, market_info)

(* calculate_stops: stop-loss and take-profit prices of an entry *)
CalculateStops(signal, entry_price, atr, market_type, grid_info) ==
    LET sl_distance == IF market_type = "RANGING" THEN (atr * 15) \div 10
                       ELSE (atr * 12) \div 10
        tp_distance == IF market_type = "RANGING"
                       THEN (IF grid_info.valid THEN (grid_info.grid_width * 25) \div 10
                             ELSE (atr * 25) \div 10)
                       ELSE atr * 5
    IN  IF signal = 1
        THEN [stop_loss |-> entry_price - sl_distance,
              take_profit |-> entry_price + tp_distance]
        ELSE [stop_loss |-> entry_price + sl_distance,
              take_profit |-> entry_price - tp_distance]

---------------------------------------------------------------------------
(* main.py: TradingBot._backtest_logic.  Money is in cents: a price         *)
(* difference in cents times a lot in 1/100 lot is a profit in cents        *)

(* calculate_position_size: lot in 1/100 lot for a balance in cents *)
CalculatePositionSize(balance, market_type) ==
    LET multiplier == IF market_type = "RANGING" THEN 10 ELSE 12
        lot_size == (balance * multiplier) \div 1000
        clamped == MaxI(100, MinI(lot_size, 10000))
    IN  (clamped + 50) \div 100

(* a settlement that charges the half spread at the entry only *)
CalculateTradeProfitEntryOnly(direction, entry_price, exit_price, lot_size) ==
    IF direction = 1
    THEN LET actual_entry == entry_price + SPREAD \div 2
         IN  [profit |-> (exit_price - actual_entry) * lot_size,
              actual_entry |-> actual_entry, actual_exit |-> exit_price]
    ELSE LET actual_entry == entry_price - SPREAD \div 2
         IN  [profit |-> (actual_entry - exit_price) * lot_size,
              actual_entry |-> actual_entry, actual_exit |-> exit_price]

(* calculate_trade_profit *)
CalculateTradeProfit(direction, entry_price, exit_price, lot_size) ==
    IF direction = 1
    THEN LET actual_entry == entry_price + SPREAD \div 2
             actual_exit == exit_price - SPREAD \div 2
         IN  [profit |-> (actual_exit - actual_entry) * lot_size,
              actual_entry |-> actual_entry, actual_exit |-> actual_exit]
    ELSE LET actual_entry == entry_price - SPREAD \div 2
             actual_exit == exit_price + SPREAD \div 2
         IN  [profit |-> (actual_entry - actual_exit) * lot_size,
              actual_entry |-> actual_entry, actual_exit |-> actual_exit]

(* a breakeven promotion that leaves the stop 0.10 short of the entry *)
BreakEvenShort(pos, current_price, current_atr) ==
    LET profit_distance == IF pos.direction = 1 THEN current_price - pos.entry
                           ELSE pos.entry - current_price
        should_move_to_be == profit_distance * 10 >= break_even_trigger * current_atr
        new_sl == pos.entry - 10 * pos.direction
    IN  IF should_move_to_be /\ ~pos.be_triggered
        THEN [pos EXCEPT !.sl = new_sl, !.be_triggered = TRUE,
                         !.adjustments = Append(@, [type |-> "breakeven",
                                                     new_sl |-> new_sl])]
        ELSE pos

(* the breakeven promotion of one position on a bar *)
BreakEven(pos, current_price, current_atr) ==
    LET profit_distance == IF pos.direction = 1 THEN current_price - pos.entry
                           ELSE pos.entry - current_price
        should_move_to_be == profit_distance * 10 >= break_even_trigger * current_atr
    IN  IF should_move_to_be /\ ~pos.be_triggered
        THEN [pos EXCEPT !.sl = pos.entry, !.be_triggered = TRUE,
                         !.adjustments = Append(@, [type |-> "breakeven",
                                                     new_sl |-> pos.entry])]
        ELSE pos

(* a trailing update that moves the stop without comparing it to the old one *)
TrailingUnguarded(pos, current_price, current_atr) ==
    LET min_profit == min_profit_move_sl * current_atr
        current_profit == IF pos.direction = 1 THEN current_price - pos.entry
                          ELSE pos.entry - current_price
        highest_price == MaxI(pos.highest_price, current_price)
        lowest_price == MinI(pos.lowest_price, current_price)
        new_sl == IF pos.direction = 1
                  THEN highest_price - (12 * current_atr) \div 10
                  ELSE lowest_price + (12 * current_atr) \div 10
        moved == IF pos.direction = 1
                 THEN [pos EXCEPT !.highest_price = highest_price]
                 ELSE [pos EXCEPT !.lowest_price = lowest_price]
    IN  IF ~(current_profit > min_profit) THEN pos
        ELSE [moved EXCEPT !.sl = new_sl,
                           !.adjustments = Append(@, [type |-> "trailing",
                                                       new_sl |-> new_sl])]

(* the trailing update of one position on a bar, run when trailing_stop is on *)
Trailing(pos, current_price, current_atr) ==
    LET min_profit == min_profit_move_sl * current_atr
        current_profit == IF pos.direction = 1 THEN current_price - pos.entry
                          ELSE pos.entry - current_price
        highest_price == MaxI(pos.highest_price, current_price)
        lowest_price == MinI(pos.lowest_price, current_price)
        new_sl == IF pos.direction = 1
                  THEN highest_price - (12 * current_atr) \div 10
                  ELSE lowest_price + (12 * current_atr) \div 10
        tighter == IF pos.direction = 1 THEN new_sl > pos.sl ELSE new_sl < pos.sl
        moved == IF pos.direction = 1
                 THEN [pos EXCEPT !.highest_price = highest_price]
                 ELSE [pos EXCEPT !.lowest_price = lowest_price]
    IN  IF ~(current_profit > min_profit) THEN pos
        ELSE IF tighter
        THEN [moved EXCEPT !.sl = new_sl,
                           !.adjustments = Append(@, [type |-> "trailing",
                                                       new_sl |-> new_sl])]
        ELSE moved

(* a close check that settles a stopped position at the close of the bar *)
CloseCheckAtClose(pos, current_price) ==
    LET hit_tp == IF pos.direction = 1 THEN current_price >= pos.tp
                  ELSE current_price <= pos.tp
        hit_sl == IF pos.direction = 1 THEN current_price <= pos.sl
                  ELSE current_price >= pos.sl
        last == pos.adjustments[Len(pos.adjustments)]
    IN  IF hit_tp THEN [close_reason |-> "take_profit", exit |-> pos.tp]
        ELSE IF ~hit_sl THEN [close_reason |-> "", exit |-> 0]
        ELSE IF pos.be_triggered /\ pos.sl = pos.entry
        THEN [close_reason |-> "breakeven_stop", exit |-> current_price]
        ELSE IF Len(pos.adjustments) > 0 /\ last.type = "trailing"
        THEN [close_reason |-> "trailing_stop", exit |-> current_price]
        ELSE [close_reason |-> "stop_loss", exit |-> current_price]

(* the close check of one position: the reason, "" when it stays open, and *)
(* the price the trade is settled at                                        *)
CloseCheck(pos, current_price) ==
    LET hit_tp == IF pos.direction = 1 THEN current_price >= pos.tp
                  ELSE current_price <= pos.tp
        hit_sl == IF pos.direction = 1 THEN current_price <= pos.sl
                  ELSE current_price >= pos.sl
        last == pos.adjustments[Len(pos.adjustments)]
    IN  IF hit_tp THEN [close_reason |-> "take_profit", exit |-> pos.tp]
        ELSE IF ~hit_sl THEN [close_reason |-> "", exit |-> 0]
        ELSE IF pos.be_triggered /\ pos.sl = pos.entry
        THEN [close_reason |-> "breakeven_stop", exit |-> pos.sl]
        ELSE IF Len(pos.adjustments) > 0 /\ last.type = "trailing"
        THEN [close_reason |-> "trailing_stop", exit |-> pos.sl]
        ELSE [close_reason |-> "stop_loss", exit |-> pos.sl]

(* the record appended to trade_records when pos closes *)
TradeRecord(pos, current_price, chk, settled, trade_count) ==
    [no |-> trade_count + 1, id |-> pos.id, direction |-> pos.direction,
     entry |-> pos.entry, close_price |-> current_price, exit |-> chk.exit,
     actual_entry |-> settled.actual_entry, actual_exit |-> settled.actual_exit,
     lot |-> pos.lot, initial_sl |-> pos.initial_sl, final_sl |-> pos.sl,
     tp |-> pos.tp, profit |-> settled.profit, close_reason |-> chk.close_reason,
     be_triggered |-> pos.be_triggered, market_type |-> pos.market_type]

(* one pass of the position loop over a position whose stops were updated *)
SettlePosition(B, pos, current_price, chk) ==
    IF chk.close_reason = ""
    THEN [B EXCEPT !.positions = Append(@, pos)]
    ELSE LET settled == CalculateTradeProfit(pos.direction, pos.entry, chk.exit, pos.lot)
         IN  [B EXCEPT !.balance = @ + settled.profit,
                       !.trade_records = Append(@, TradeRecord(pos, current_price, chk,
                                                               settled, B.trade_count)),
                       !.trade_count = @ + 1,
                       !.wins = IF settled.profit > 0 THEN @ + 1 ELSE @]

UpdateStops(pos, current_price, current_atr, trailing_stop) ==
    IF trailing_stop
    THEN Trailing(BreakEven(pos, current_price, current_atr), current_price, current_atr)
    ELSE BreakEven(pos, current_price, current_atr)

ManageOne(B, pos, current_price) == SettlePosition(B, pos, current_price,
                                                   CloseCheck(pos, current_price))

(* the loop "for pos in positions[:]" of a bar over the open positions *)
RECURSIVE ManagePositions(_, _, _, _)
ManagePositions(B, open, current_price, current_atr) ==
    IF open = <<>> THEN B
    ELSE ManagePositions(
             ManageOne(B, UpdateStops(Head(open), current_price, current_atr,
                                      B.trailing_stop), current_price),
             Tail(open), current_price, current_atr)

(* an entry that lets the open list grow past max_positions *)
OpenPositionPastCap(B, dec, price, current_atr) ==
    IF dec.signal # 0 /\ Len(B.positions) <= max_positions
    THEN LET stops == CalculateStops(dec.signal, price, current_atr, dec.market_type,
                                     dec.details.grid_info)
         IN  [B EXCEPT !.opened = @ + 1,
                       !.positions = Append(@,
                           [id |-> B.opened + 1, direction |-> dec.signal,
                            entry |-> price, entry_time |-> B.i,
                            entry_atr |-> current_atr,
                            lot |-> CalculatePositionSize(B.balance, dec.market_type),
                            sl |-> stops.stop_loss, initial_sl |-> stops.stop_loss,
                            tp |-> stops.take_profit, be_triggered |-> FALSE,
                            adjustments |-> <<>>, market_type |-> dec.market_type,
                            highest_price |-> IF dec.signal = 1 THEN price ELSE None,
                            lowest_price |-> IF dec.signal = 1 THEN None ELSE price,
                            grid_id |-> dec.grid_id])]
    ELSE B

(* the entry of a bar: a position is appended whenever the signal is non-zero *)
(* and fewer than max_positions are open; grid_id notes the layer the         *)
(* executor named for the signal, which the backtest itself does not keep     *)
OpenPosition(B, dec, price, current_atr) ==
    IF dec.signal # 0 /\ Len(B.positions) < max_positions
    THEN LET stops == CalculateStops(dec.signal, price, current_atr, dec.market_type,
                                     dec.details.grid_info)
         IN  [B EXCEPT !.opened = @ + 1,
                       !.positions = Append(@,
                           [id |-> B.opened + 1, direction |-> dec.signal,
                            entry |-> price, entry_time |-> B.i,
                            entry_atr |-> current_atr,
                            lot |-> CalculatePositionSize(B.balance, dec.market_type),
                            sl |-> stops.stop_loss, initial_sl |-> stops.stop_loss,
                            tp |-> stops.take_profit, be_triggered |-> FALSE,
                            adjustments |-> <<>>, market_type |-> dec.market_type,
                            highest_price |-> IF dec.signal = 1 THEN price ELSE None,
                            lowest_price |-> IF dec.signal = 1 THEN None ELSE price,
                            grid_id |-> dec.grid_id])]
    ELSE B

(* one iteration of "for i in range(300, len(df))" once generate_signal ended *)
(* with dec: an exception leaves the loop, a decision runs the bar             *)
BacktestBar(B, dec, h) ==
    IF dec.raised # "none"
    THEN [B EXCEPT !.pc = "raised"]
    ELSE OpenPosition(
             ManagePositions([B EXCEPT !.positions = <<>>, !.i = @ + 1,
                                       !.last_close = h.close, !.signals = Append(@, dec.signal)],
                             B.positions, h.close, h.atr),
             dec, h.close, h.atr)

(* a final close that settles only the first of the positions left open *)
ForceCloseFirst(B, open) ==
    IF open = <<>> THEN B
    ELSE LET pos == Head(open)
             settled == CalculateTradeProfit(pos.direction, pos.entry, B.last_close,
                                             pos.lot)
         IN  [B EXCEPT !.balance = @ + settled.profit,
                       !.trade_count = @ + 1,
                       !.wins = IF settled.profit > 0 THEN @ + 1 ELSE @]

(* the closing of the positions left open after the last bar *)
RECURSIVE ForceClose(_, _)
ForceClose(B, open) ==
    IF open = <<>> THEN B
    ELSE LET pos == Head(open)
             settled == CalculateTradeProfit(pos.direction, pos.entry, B.last_close,
                                             pos.lot)
         IN  ForceClose([B EXCEPT !.balance = @ + settled.profit,
                                  !.trade_count = @ + 1,
                                  !.wins = IF settled.profit > 0 THEN @ + 1 ELSE @],
                        Tail(open))

---------------------------------------------------------------------------
(* Bar histories handed to the pipeline *)

Hist(n, adx, close, atr, half, vp, z, ac, votes) ==
    [n |-> n, adx |-> adx, close |-> close, atr |-> atr,
     recent_high |-> close + half, recent_low |-> close - half,
     recent_atr |-> vp[1], historical_atr |-> vp[2],
     zscore |-> z, autocorr |-> ac, votes |-> votes]

NoVotes == <<0, 0, 0, 0>>

ShortHistories ==
    {Hist(n, 0, 202000, 200, 500, <<200, 200>>, 0, 0, NoVotes) : n \in {0, 1, min_bars - 1}}

TrendingHistories ==
    {Hist(min_bars, adx, 202000, 200, 1500, <<200, 200>>, 0, 0, v) :
        adx \in {adx_threshold, adx_strong - 1, adx_strong, 60},
        v \in {NoVotes, <<1, 1, 0, 0>>}}

(* a ranging history whose ADX is just under the threshold *)
BoundaryHistories ==
    {Hist(min_bars, adx_threshold - 1, 202000, 100, 1500, <<200, 200>>, 0, 0, NoVotes)}

(* the 40-bar window and ATR statistics of a series: <<ATR, half range, 20-bar *)
(* ATR mean, lookback ATR mean>>.  A positive ATR makes both means positive;  *)
(* a flat window (half range 0) has zero ATR                                  *)
GridShapes ==
    {<<0, 1500, 0, 200>>,          \* flat tail after a move: ATR 0, range > 0
     <<100, 300, 200, 200>>,       \* quiet market, NORMAL volatility
     <<100, 1500, 200, 200>>,      \* wide range, NORMAL volatility
     <<100, 1500, 300, 200>>,      \* HIGH volatility
     <<100, 1500, 100, 200>>,      \* LOW volatility
     <<1000, 1500, 900, 900>>,     \* wide grid: the first levels a full width away
     <<4000, 2000, 4000, 4000>>}   \* bars as wide as the window: levels clipped away

(* the 80-bar z-score and the lag-1 autocorrelation of returns *)
SeriesStats == {<<0, 0>>, <<300, 0>>, <<0 - 260, 0 - 30>>}

Closes == {200300, 202000}

RangingHistories ==
    {Hist(min_bars, 10, c, g[1], g[2], <<g[3], g[4]>>, st[1], st[2], NoVotes) :
        c \in Closes, g \in GridShapes, st \in SeriesStats}

(* a constant series: no range, zero ATR, 0/0 z-score and autocorrelation *)
ConstantHistories ==
    {Hist(min_bars, 0, c, 0, 0, <<0, 0>>, NaN, NaN, NoVotes) : c \in Closes}

(* trending histories whose frame carries the EMA columns as well, so that *)
(* the four strategies vote and the TRENDING branch returns                *)
TrendFrames ==
    {[f \in DOMAIN h \cup {"columns"} |->
         IF f = "columns"
         THEN CalculateAllIndicators \cup {"EMA_20", "EMA_50", "EMA_200"}
         ELSE h[f]] :
        h \in {Hist(min_bars, adx, 202000, 200, 1500, <<200, 200>>, 0, 0, <<1, 1, 0, 0>>) :
                  adx \in {30, 60}}}

Histories ==
    ShortHistories \cup TrendingHistories \cup BoundaryHistories
        \cup RangingHistories \cup ConstantHistories \cup TrendFrames

(* frames of a backtest, df.iloc[:i+1] with i >= warm_up: quiet ranging bars  *)
(* around 2020 where the first sell level is touched, ranging bars below 2000 *)
(* where only the first buy level is touched, and a trending bar              *)
Bar(close, atr, half, z, ac) ==
    Hist(warm_up + 1, 10, close, atr, half, <<200, 200>>, z, ac, NoVotes)

BacktestHistories ==
    {Bar(202000, 100, 1500, 300, 0),
     Bar(201800, 100, 1500, 300, 0),
     Bar(201700, 200, 1500, 300, 0),
     Bar(202200, 100, 1500, 0, 0),
     Bar(201600, 100, 1500, 0, 0),
     Bar(199230, 600, 4940, 0 - 260, 0 - 30),
     Bar(199900, 100, 1500, 0, 0),
     Bar(198300, 100, 1500, 0, 0),
     Hist(warm_up + 1, 45, 202000, 100, 1500, <<200, 200>>, 0, 0, NoVotes)}

---------------------------------------------------------------------------
(* The objects after construction *)

InitStrategy ==
    [last_trade_time |-> None, consecutive_skip |-> 0, volatility_regime |-> "None",
     dynamic_grid |-> NoGrid]

InitExecutor ==
    [balance |-> initial_capital * 10000, consecutive_losses |-> 0,
     consecutive_wins |-> 0, active_grids |-> [g \in {} |-> g], closed_grids |-> <<>>,
     trade_history |-> <<>>]

InitManager == [current_market_type |-> "None", last_adx |-> 0]

InitBacktest ==
    [pc |-> "idle", trailing_stop |-> FALSE, i |-> 0, balance |-> initial_balance * 100,
     positions |-> <<>>, opened |-> 0, trade_count |-> 0, wins |-> 0,
     trade_records |-> <<>>, last_close |-> 0, signals |-> <<>>]

(* the objects of a second run of the same backtest, with its own wall clock *)
InitReplay ==
    [now |-> ClockStart, strategy |-> InitStrategy, manager |-> InitManager,
     ret |-> NoReturn, backtest |-> InitBacktest]

(* main_loop is entered: no iteration yet, no order placed *)
NoOrder == [time |-> None, direction |-> 0, lot |-> 0, price |-> 0, sl |-> 0, tp |-> 0]

InitLive ==
    [pc |-> "running", orders |-> <<>>, bar_time |-> None, evaluations |-> 0,
     placed |-> 0, evaluated |-> FALSE, last_row_time |-> None, count |-> 0,
     balance |-> 0, price |-> 0, atr |-> 0, accepted |-> FALSE, order |-> NoOrder,
     trailing_stop |-> FALSE, positions |-> <<>>]

Init ==
    /\ now = ClockStart
    /\ strategy = InitStrategy
    /\ executor = InitExecutor
    /\ manager = InitManager
    /\ ret = NoReturn
    /\ backtest = InitBacktest
    /\ replay = InitReplay
    /\ live = InitLive

(* time passes between two calls *)
Tick ==
    /\ now < ClockStart + MaxTicks * TickMinutes
    /\ now' = now + TickMinutes
    /\ UNCHANGED <<strategy, executor, manager, ret, backtest, replay, live>>

(* one call of AdaptiveStrategyManager.generate_signal *)
CallGenerateSignal ==
    \E h \in Histories :
        \E r \in {GenerateSignal([strategy |-> strategy, executor |-> executor,
                                  manager |-> manager], h, now)} :
            /\ r.strategy.consecutive_skip <= MaxSkip
            /\ strategy' = r.strategy
            /\ manager' = r.manager
            /\ ret' = r.dec
            /\ UNCHANGED <<now, executor, backtest, replay, live>>

Next == Tick \/ CallGenerateSignal

Spec == Init /\ [][Next]_vars

---------------------------------------------------------------------------
(* A backtest run of a fresh bot while the wall clock goes on *)

(* _backtest_logic is entered; RISK_CONFIG['trailing_stop'] is as configured *)
StartBacktest ==
    /\ backtest.pc = "idle"
    /\ \E ts \in BOOLEAN :
           backtest' = [backtest EXCEPT !.pc = "running", !.trailing_stop = ts]
    /\ UNCHANGED <<now, strategy, executor, manager, ret, replay, live>>

(* one bar of the loop *)
BacktestStep ==
    /\ backtest.pc = "running"
    /\ backtest.i < MaxBars
    /\ \E h \in BacktestHistories :
           \E r \in {GenerateSignal([strategy |-> strategy, executor |-> executor,
                                     manager |-> manager], h, now)} :
               /\ r.strategy.consecutive_skip <= MaxSkip
               /\ strategy' = r.strategy
               /\ manager' = r.manager
               /\ ret' = r.dec
               /\ backtest' = BacktestBar(backtest, r.dec, h)
    /\ UNCHANGED <<now, executor, replay, live>>

(* the bar array is exhausted: the open positions are settled at the last close *)
FinishBacktest ==
    /\ backtest.pc = "running"
    /\ backtest' = [ForceClose(backtest, backtest.positions) EXCEPT !.pc = "done"]
    /\ UNCHANGED <<now, strategy, executor, manager, ret, replay, live>>

NextBacktest == Tick \/ StartBacktest \/ BacktestStep \/ FinishBacktest

SpecBacktest == Init /\ [][NextBacktest]_vars

(* A slow backtest run over quiet ranging bars: the wall clock may pass the   *)
(* trade cooldown while a bar is processed, so that bar after bar can signal *)
LongRunBars ==
    {Bar(202000, 100, 1500, 300, 0), Bar(202000, 100, 1500, 0, 0),
     Hist(warm_up + 1, 10, 202000, 100, 1500, <<300, 200>>, 300, 0, NoVotes),
     Hist(warm_up + 1, 10, 202000, 100, 1500, <<100, 200>>, 300, 0, NoVotes)}

LongRunStep ==
    /\ backtest.pc = "running"
    /\ backtest.i < MaxLongBars
    /\ \E h \in LongRunBars :
           \E r \in {GenerateSignal([strategy |-> strategy, executor |-> executor,
                                     manager |-> manager], h, now)} :
               /\ r.strategy.consecutive_skip <= MaxSkip
               /\ strategy' = r.strategy
               /\ manager' = r.manager
               /\ ret' = r.dec
               /\ backtest' = BacktestBar(backtest, r.dec, h)
    /\ now' \in {now, now + min_trade_interval}
    /\ UNCHANGED <<executor, replay, live>>

NextLongRun == StartBacktest \/ LongRunStep \/ FinishBacktest

SpecLongRun == Init /\ [][NextLongRun]_vars

C28_PersistedState ==
    \A h \in {Hist(min_bars, 10, 202000, g[1], g[2], <<g[3], g[4]>>, 0 - 260, 0 - 30,
                     NoVotes) : g \in GridShapes} :
        GenerateSignal([strategy |-> strategy, executor |-> executor,
                        manager |-> manager], h, now).dec
            = GenerateSignal([strategy |->
                                 [InitStrategy EXCEPT
                                     !.last_trade_time = strategy.last_trade_time,
                                     !.consecutive_skip = strategy.consecutive_skip],
                              executor |-> executor, manager |-> InitManager],
                             h, now).dec

(* an instance that traded, skipped two bars since, and kept a grid and a   *)
(* LOW regime from its last call                                            *)
C28_Witness ==
    /\ strategy.last_trade_time # None
    /\ strategy.consecutive_skip >= 2
    /\ strategy.dynamic_grid.valid
    /\ strategy.volatility_regime = "LOW"
    /\ ret.returned

(* C28 as stated: an instance with the same streak counters and occupancy   *)
(* map as a new one decides every bar as the new one does                   *)
C28_AsStated ==
    \A h \in {Hist(min_bars, 10, 202000, g[1], g[2], <<g[3], g[4]>>, 0 - 260, 0 - 30,
                     NoVotes) : g \in GridShapes} :
        GenerateSignal([strategy |-> strategy, executor |-> executor,
                        manager |-> manager], h, now).dec
            = GenerateSignal([strategy |-> InitStrategy, executor |-> executor,
                              manager |-> InitManager], h, now).dec

(* C25: in the TRENDING branch the confidence of the decision is           *)
(* clamp(ADX / 50, 0, 1); it is exactly 1 for every ADX >= 50               *)
C25_TrendConfidenceClamped ==
    (ret.returned /\ ret.market_type = "TRENDING") =>
        /\ ret.confidence = MaxI(0, MinI(ret.adx * 20, Milli))
        /\ ret.adx >= 50 => ret.confidence = Milli

(* C39: the signal and the confidence returned by                           *)
(* calculate_grid_trading_signal belong to the same side: when a buy level   *)
(* and a sell level are both touched, a buy signal carries the confidence of *)
(* the touched buy level and a sell signal that of the touched sell level;   *)
(* consecutive_skip is reset exactly when the signal is non-zero.  The grid  *)
(* is centred on the close of the bar, which is the price of the touch       *)
C39_SignalAndConfidenceAgree ==
    (ret.returned /\ ret.details.status = "evaluated" /\ ret.details.grid_info.valid) =>
        LET d == ret.details
            g == d.grid_info
            b == FirstTouchedBuy(g.buy_levels, g.center)
            s == FirstTouchedSell(g.sell_levels, g.center)
        IN  /\ (b # 0 /\ s # 0 /\ d.grid_signal = 1) =>
                   d.grid_confidence =
                       TouchConfidence(g.buy_levels[b] - g.center, g.grid_width, b,
                                       Len(g.buy_levels))
            /\ (b # 0 /\ s # 0 /\ d.grid_signal = 0 - 1) =>
                   d.grid_confidence =
                       TouchConfidence(g.center - g.sell_levels[s], g.grid_width, s,
                                       Len(g.sell_levels))
            /\ (strategy.consecutive_skip = 0) = (d.grid_signal # 0)

(* C38: whenever generate_professional_signal returns signal 0 it returns   *)
(* confidence 0, on every path: insufficient data, cooldown, no grid, gate   *)
(* not passed, starvation branch                                             *)
C38_NoSignalNoConfidence ==
    (/\ ret.returned
     /\ ret.details.status \in {"insufficient", "cooldown", "evaluated"}
     /\ ret.signal = 0)
        => ret.confidence = 0

(* C35: every grid built by build_dynamic_grid with ATR > 0 has between 6    *)
(* and 12 levels generated per side and grid_width = total_range / level     *)
(* count within [0.4 ATR, 1.5 ATR], also after the width has been clamped.   *)
(* The levels returned are those generated that the 40-bar range keeps, so   *)
(* a side of the grid returned has at most 12                                *)
C35_GridBounds ==
    LET g == ret.details.grid_info
    IN  (ret.returned /\ g.valid /\ g.atr > 0) =>
            /\ Len(g.buy_levels) <= 12
            /\ Len(g.sell_levels) <= 12
            /\ g.grid_width * 10 >= g.atr * 4
            /\ g.grid_width * 10 <= g.atr * 15
            /\ \E count \in 6..12 : g.grid_width = g.total_range \div count

(* C34: the initial target distance of a grid (RANGING) entry is the larger  *)
(* of gridWidth * 2.5 and ATR * 3.0, so never below ATR * 3.0; that of a     *)
(* trend entry is ATR * atr_multiplier_tp (5.0).  Checked on the stops that  *)
(* calculate_stops gives for the decision just returned, at the close and    *)
(* the ATR of its bar                                                        *)
C34_TargetDistance ==
    (ret.returned /\ ret.signal # 0) =>
        IF ret.market_type = "RANGING"
        THEN LET g == ret.details.grid_info
                 stops == CalculateStops(ret.signal, g.center, g.atr, "RANGING", g)
                 tp_distance == AbsI(stops.take_profit - g.center)
             IN  /\ tp_distance = MaxI((g.grid_width * 25) \div 10, g.atr * 3)
                 /\ tp_distance >= g.atr * 3
        ELSE \A atr \in {100, 200} :
                 LET stops == CalculateStops(ret.signal, 202000, atr, ret.market_type,
                                             NoGrid)
                 IN  AbsI(stops.take_profit - 202000) = atr * 5

(* C24: the initial stop of a grid (RANGING) entry is entry - ATR * m for a  *)
(* long and entry + ATR * m for a short, with m = 1.0 / 1.5 / 2.0 in the LOW *)
(* / NORMAL / HIGH volatility regime of the bar of the entry.  Checked on    *)
(* the position opened by the bar that was just replayed                     *)
C24_RegimeStop ==
    (backtest.pc = "running" /\ backtest.positions # <<>>) =>
        LET pos == backtest.positions[Len(backtest.positions)]
            regime == strategy.volatility_regime
            m == IF regime = "LOW" THEN 10 ELSE IF regime = "HIGH" THEN 20 ELSE 15
            sl_distance == (pos.entry_atr * m) \div 10
        IN  (pos.entry_time = backtest.i /\ pos.market_type = "RANGING") =>
                pos.initial_sl = IF pos.direction = 1 THEN pos.entry - sl_distance
                                 ELSE pos.entry + sl_distance

---------------------------------------------------------------------------
(* Properties of a backtest run, checked under SpecBacktest *)

OpenIds(B) == {B.positions[k].id : k \in 1..Len(B.positions)}

PositionOf(B, id) == B.positions[CHOOSE k \in 1..Len(B.positions) : B.positions[k].id = id]

(* the stop of position id after a step: its stop while open, the final stop *)
(* of its trade record once closed                                           *)
Closed(B, id) == \E k \in 1..Len(B.trade_records) : B.trade_records[k].id = id

RecordOf(B, id) ==
    B.trade_records[CHOOSE k \in 1..Len(B.trade_records) : B.trade_records[k].id = id]

BreakevenCount(pos) ==
    Cardinality({k \in 1..Len(pos.adjustments) : pos.adjustments[k].type = "breakeven"})

NotLosingSide(direction, sl, entry) ==
    IF direction = 1 THEN sl >= entry ELSE sl <= entry

(* C4: in every reachable state of a run at most one open position belongs  *)
(* to a grid layer (grid_id = direction and level index)                     *)
C4_OneOpenPerGridLayer ==
    \A j, k \in 1..Len(backtest.positions) :
        (j # k /\ backtest.positions[j].grid_id # NoGridId) =>
            backtest.positions[j].grid_id # backtest.positions[k].grid_id

(* C6: be_triggered of a position goes from false to true at most once and  *)
(* never back; the breakeven promotion puts the stop at the entry price      *)
(* exactly (the stop of the bar is the entry unless the trailing update of   *)
(* the same bar has already tightened it); from then on the stop is never    *)
(* on the losing side of the entry, while open and when the trade is closed  *)
C6_BreakevenOneWay ==
    [][\A id \in OpenIds(backtest) :
          LET p == PositionOf(backtest, id)
          IN  /\ BreakevenCount(p) = (IF p.be_triggered THEN 1 ELSE 0)
              /\ p.be_triggered => NotLosingSide(p.direction, p.sl, p.entry)
              /\ id \in OpenIds(backtest') =>
                    LET q == PositionOf(backtest', id)
                    IN  /\ p.be_triggered => q.be_triggered
                        /\ BreakevenCount(q) = (IF q.be_triggered THEN 1 ELSE 0)
                        /\ q.be_triggered => NotLosingSide(q.direction, q.sl, q.entry)
                        /\ (~p.be_triggered /\ q.be_triggered) =>
                              /\ q.adjustments[Len(p.adjustments) + 1] =
                                     [type |-> "breakeven", new_sl |-> q.entry]
                              /\ ~backtest.trailing_stop => q.sl = q.entry
              /\ Closed(backtest', id) =>
                    LET r == RecordOf(backtest', id)
                    IN  /\ p.be_triggered => r.be_triggered
                        /\ r.be_triggered => NotLosingSide(r.direction, r.final_sl, r.entry)
      ]_vars

(* with trailing off, an open position was promoted to breakeven: its stop  *)
(* is the entry and the promotion is its only adjustment                     *)
C6_Witness ==
    /\ ~backtest.trailing_stop
    /\ backtest.pc = "running"
    /\ \E k \in 1..Len(backtest.positions) :
           /\ backtest.positions[k].be_triggered
           /\ backtest.positions[k].sl = backtest.positions[k].entry
           /\ Len(backtest.positions[k].adjustments) = 1

(* C7: between consecutive bars the stop of a position never loosens: it     *)
(* never falls for a long and never rises for a short, through breakeven     *)
(* promotion and trailing updates, whatever the ATR of the bars              *)
C7_StopNeverLoosens ==
    [][\A id \in OpenIds(backtest) :
          LET p == PositionOf(backtest, id)
              after == IF id \in OpenIds(backtest') THEN PositionOf(backtest', id).sl
                       ELSE IF Closed(backtest', id) THEN RecordOf(backtest', id).final_sl
                       ELSE p.sl
          IN  IF p.direction = 1 THEN after >= p.sl ELSE after <= p.sl
      ]_vars

(* a stop was promoted to breakeven and then trailed *)
C7_Witness ==
    \E k \in 1..Len(backtest.positions) :
        LET adj == backtest.positions[k].adjustments
        IN  /\ Len(adj) >= 2
            /\ adj[1].type = "breakeven"
            /\ adj[Len(adj)].type = "trailing"

(* C37: every position closed with reason breakeven-stop (be_triggered and  *)
(* stop = entry) realizes exactly -SPREAD * lot, a strictly negative pnl: on *)
(* the bar that closes it the balance goes down by it and the close is not   *)
(* counted as a win                                                          *)
C37_BreakevenCostsSpread ==
    [][(backtest.pc = "running" /\ backtest'.pc = "running") =>
          LET before == Len(backtest.trade_records)
              records == backtest'.trade_records
              new == (before + 1)..Len(records)
              total[k \in before..Len(records)] ==
                  IF k = before THEN 0 ELSE total[k - 1] + records[k].profit
          IN  /\ \A k \in new :
                     records[k].close_reason = "breakeven_stop" =>
                         /\ records[k].be_triggered
                         /\ records[k].final_sl = records[k].entry
                         /\ records[k].profit = 0 - SPREAD * records[k].lot
                         /\ records[k].profit < 0
              /\ backtest'.balance = backtest.balance + total[Len(records)]
              /\ backtest'.wins =
                     backtest.wins + Cardinality({k \in new : records[k].profit > 0})
      ]_vars

(* a breakeven-stop close is on record and the balance is below the start *)
C37_Witness ==
    /\ \E k \in 1..Len(backtest.trade_records) :
           /\ backtest.trade_records[k].close_reason = "breakeven_stop"
           /\ backtest.trade_records[k].profit < 0
    /\ backtest.wins = 0
    /\ backtest.balance < initial_balance * 100

(* C22: at the end of the series every position still open is closed at the *)
(* close of the final bar: its spread-adjusted pnl is added to the balance  *)
(* and it is counted as a trade, a winning one when the pnl is positive      *)
C22_ForceCloseAll ==
    [][(backtest.pc = "running" /\ backtest'.pc = "done") =>
          LET open == backtest.positions
              pnl(k) == CalculateTradeProfit(open[k].direction, open[k].entry,
                                             backtest.last_close, open[k].lot).profit
              total[k \in 0..Len(open)] ==
                  IF k = 0 THEN 0 ELSE total[k - 1] + pnl(k)
          IN  /\ backtest'.balance = backtest.balance + total[Len(open)]
              /\ backtest'.trade_count = backtest.trade_count + Len(open)
              /\ backtest'.wins = backtest.wins
                     + Cardinality({k \in 1..Len(open) : pnl(k) > 0})
      ]_vars

(* a run has ended with two positions settled at the final close *)
C22_Witness ==
    /\ backtest.pc = "done"
    /\ Len(backtest.positions) = 2
    /\ backtest.trade_count = Len(backtest.trade_records) + 2

(* C23: every position that leaves the open list yields exactly one trade   *)
(* record with its realized pnl and a close reason among take profit, stop  *)
(* loss, breakeven stop and trailing stop, so that at the end of a run the  *)
(* number of counted trades is the number of trade records and their pnl    *)
(* sums to final balance - initial balance                                   *)
C23_RecordPerClose ==
    LET records == backtest.trade_records
        total[k \in 0..Len(records)] ==
            IF k = 0 THEN 0 ELSE total[k - 1] + records[k].profit
    IN  /\ \A k \in 1..Len(records) :
               records[k].close_reason \in
                   {"take_profit", "stop_loss", "breakeven_stop", "trailing_stop"}
        /\ backtest.pc = "done" =>
               /\ backtest.trade_count = Len(records)
               /\ total[Len(records)] = backtest.balance - initial_balance * 100

(* C20: the streak counters are updated on every closed trade of a run      *)
(* before the next grid lot size is computed: between two bars of a run, if  *)
(* the last closed trade made a profit the executor's win streak is at least *)
(* 1 and its loss streak 0, and if it made a loss the loss streak is at      *)
(* least 1 and the win streak 0                                              *)
C20_StreaksFollowCloses ==
    (backtest.pc = "running" /\ backtest.trade_records # <<>>) =>
        LET last == backtest.trade_records[Len(backtest.trade_records)]
        IN  /\ last.profit > 0 =>
                   executor.consecutive_wins >= 1 /\ executor.consecutive_losses = 0
            /\ last.profit < 0 =>
                   executor.consecutive_losses >= 1 /\ executor.consecutive_wins = 0

---------------------------------------------------------------------------
(* The settlement of one trade: calculate_trade_profit on the direction,    *)
(* entry, exit and lot of a position that closes                             *)

SettleEntries == {199230, 200000, 202000}
SettleExits == {198330, 200000, 201000, 201205, 201625, 202150}
SettleLots == {1, 2, 5}

InitSettle ==
    /\ now = ClockStart
    /\ strategy = InitStrategy
    /\ executor = InitExecutor
    /\ manager = InitManager
    /\ ret = NoReturn
    /\ replay = InitReplay
    /\ live = InitLive
    /\ \E d \in {0 - 1, 1} : \E e \in SettleEntries : \E x \in SettleExits :
           \E l \in SettleLots :
               backtest = [pc |-> "closing",
                           trade |-> [direction |-> d, entry |-> e, exit |-> x, lot |-> l],
                           profit |-> 0]

SettleTrade ==
    /\ backtest.pc = "closing"
    /\ backtest' = [backtest EXCEPT
                       !.pc = "closed",
                       !.profit = CalculateTradeProfit(backtest.trade.direction,
                                                       backtest.trade.entry,
                                                       backtest.trade.exit,
                                                       backtest.trade.lot).profit]
    /\ UNCHANGED <<now, strategy, executor, manager, ret, replay, live>>

NextSettle == SettleTrade

SpecSettle == InitSettle /\ [][NextSettle]_vars

(* the worked trade: long, entry 2000.00, exit 2010.00, lot 0.01 *)
WorkedTrade == [direction |-> 1, entry |-> 200000, exit |-> 201000, lot |-> 1]

(* the pnl in cents by the two formulas, written out from the statement *)
StatedPnl(t) ==
    IF t.direction = 1
    THEN ((t.exit - SPREAD \div 2) - (t.entry + SPREAD \div 2)) * t.lot
    ELSE ((t.entry - SPREAD \div 2) - (t.exit + SPREAD \div 2)) * t.lot

SpreadFreePnlLessSpread(t) ==
    t.direction * (t.exit - t.entry) * t.lot - SPREAD * t.lot

(* C8, as stated: the realized pnl of a closed trade is the spread-adjusted  *)
(* difference times lot times 100, that is the spread-free pnl less          *)
(* spread * lot * 100, and the worked trade (entry 2000, exit 2010, spread   *)
(* 0.3, lot 0.01) gives 1.94                                                 *)
C8_AsStated ==
    backtest.pc = "closed" =>
        /\ backtest.profit = StatedPnl(backtest.trade)
        /\ backtest.profit = SpreadFreePnlLessSpread(backtest.trade)
        /\ backtest.trade = WorkedTrade => backtest.profit = 194

(* C8, amended: the same two formulas, and the worked trade gives 9.70 *)
C8_SpreadPnl ==
    backtest.pc = "closed" =>
        /\ backtest.profit = StatedPnl(backtest.trade)
        /\ backtest.profit = SpreadFreePnlLessSpread(backtest.trade)
        /\ backtest.trade = WorkedTrade => backtest.profit = 970

(* the worked trade has been settled *)
C8_Witness ==
    /\ backtest.pc = "closed"
    /\ backtest.trade = WorkedTrade
    /\ backtest.profit = 970

---------------------------------------------------------------------------
(* The executor and its grid tracker driven through their methods: the    *)
(* caller records openings and closings of the layers manage_grid_positions *)
(* names, and asks for the next layer                                       *)

LayerIds == {[direction |-> "LONG", level |-> l] : l \in 0..4}
                \cup {[direction |-> "SHORT", level |-> 0]}

(* grids handed to manage_grid_positions: none, a narrow one whose first    *)
(* levels are within 1% of the price, a wide one with no level that close   *)
ManageGrids ==
    {NoGrid,
     BuildDynamicGrid(Hist(min_bars, 10, 202000, 100, 1500, <<200, 200>>, 0, 0, NoVotes)).grid,
     BuildDynamicGrid(Hist(min_bars, 10, 202000, 4000, 8000, <<200, 200>>, 0, 0, NoVotes)).grid}

ManageConfidences == {550, 1200}

TrackerOpen ==
    /\ \E id \in LayerIds :
           \E r \in {OpenGridPosition(executor, id, id.level, 202000, 10, id.direction,
                                      now)} :
               /\ executor' = r.executor
               /\ ret' = [NoReturn EXCEPT !.returned = TRUE,
                                          !.details.status = "open_grid_position",
                                          !.grid_id = id, !.result = r.result]
    /\ UNCHANGED <<now, strategy, manager, backtest, replay, live>>

TrackerClose ==
    /\ Len(executor.closed_grids) < MaxClosed
    /\ \E id \in LayerIds :
           \E r \in {CloseGridPosition(executor, id, 202100, now)} :
               /\ executor' = r.executor
               /\ ret' = [NoReturn EXCEPT !.returned = TRUE,
                                          !.details.status = "close_grid_position",
                                          !.grid_id = id, !.result = r.result]
    /\ UNCHANGED <<now, strategy, manager, backtest, replay, live>>

CallManageGridPositions ==
    /\ \E grid_info \in ManageGrids : \E signal \in {0 - 1, 0, 1} :
           \E confidence \in ManageConfidences :
               \E mg \in {ManageGridPositions(executor, 202000, grid_info, signal,
                                              confidence)} :
                   ret' = [NoReturn EXCEPT !.returned = TRUE, !.signal = signal,
                                           !.confidence = confidence,
                                           !.details.status = "manage_grid_positions",
                                           !.details.grid_info = grid_info,
                                           !.grid_action = mg.action,
                                           !.grid_lot_size = mg.lot_size,
                                           !.grid_id = mg.grid_id]
    /\ UNCHANGED <<now, strategy, executor, manager, backtest, replay, live>>

NextTracker == TrackerOpen \/ TrackerClose \/ CallManageGridPositions

SpecTracker == Init /\ [][NextTracker]_vars

(* The executor sized by its trade log: the caller logs closed trades, which *)
(* moves the balance and the streak counters, and asks for the next layer    *)

TradePnls == {0 - 300000, 0, 100000}

CallLogTrade ==
    /\ Len(executor.trade_history) < MaxTrades
    /\ \E pnl \in TradePnls : executor' = LogTrade(executor, pnl)
    /\ ret' = NoReturn
    /\ UNCHANGED <<now, strategy, manager, backtest, replay, live>>

NextLots == CallLogTrade \/ CallManageGridPositions

SpecLots == Init /\ [][NextLots]_vars

(* C19: the lot of a grid level is base_lot * (1.0 + 0.35 i) * confidence *  *)
(* loss streak factor * win streak factor clamped to [min_lot, balance/4000], *)
(* with factors 1.0/0.85/0.70/0.55 and 1.0/1.05/1.10/1.15 after 0/1/2/3+    *)
(* losses and wins, and it is within [min_lot, balance/4000] for every       *)
(* balance.  Lots are compared in 1/10^10 lot, where the product is          *)
(* (100 + 35 i) * confidence * loss factor * win factor / 10                 *)
C19_LotAsStated ==
    (ret.returned /\ ret.grid_action # "HOLD") =>
        LET lot == ret.grid_lot_size * 10000000
            min_lot == 50000000
            max_lot == executor.balance * 250
            product ==
                (((100 + 35 * ret.grid_id.level)
                     * LossReduction(executor.consecutive_losses)) \div 5)
                * ((ret.confidence * WinBonus(executor.consecutive_wins)) \div 2)
        IN  /\ lot = MaxI(min_lot, MinI(product, max_lot))
            /\ min_lot <= lot
            /\ lot <= max_lot

(* C32: after any sequence of pnl values passed to update_consecutive_counts *)
(* consecutive_wins is the length of the trailing run of strictly positive   *)
(* pnls and consecutive_losses that of the trailing run of strictly negative *)
(* ones; a zero pnl resets both, and at most one of the two is non-zero      *)
C32_TrailingRuns ==
    LET h == executor.trade_history
        wins[k \in 0..Len(h)] ==
            IF k = 0 THEN 0 ELSE IF h[k] > 0 THEN wins[k - 1] + 1 ELSE 0
        losses[k \in 0..Len(h)] ==
            IF k = 0 THEN 0 ELSE IF h[k] < 0 THEN losses[k - 1] + 1 ELSE 0
    IN  /\ executor.consecutive_wins = wins[Len(h)]
        /\ executor.consecutive_losses = losses[Len(h)]
        /\ executor.consecutive_wins = 0 \/ executor.consecutive_losses = 0
        /\ (Len(h) > 0 /\ h[Len(h)] = 0) =>
               executor.consecutive_wins = 0 /\ executor.consecutive_losses = 0

(* two wins in a row and then a flat trade: both counters are back at 0 *)
C32_Witness ==
    /\ Len(executor.trade_history) = 3
    /\ executor.trade_history[1] > 0
    /\ executor.trade_history[2] > 0
    /\ executor.trade_history[3] = 0
    /\ executor.consecutive_wins = 0
    /\ executor.consecutive_losses = 0

OpenOnSide(direction) ==
    Cardinality({g \in DOMAIN executor.active_grids :
                    executor.active_grids[g].direction = direction})

(* C36: after any sequence of open_grid_position and close_grid_position    *)
(* calls the tracker holds at most max_grids_per_side active grids per       *)
(* direction and one entry per grid_id; a rejected open returns False and a  *)
(* close of an unknown grid_id returns 0, both leaving active_grids and      *)
(* closed_grids as they were; an accepted open adds its grid to active_grids *)
(* and a close moves it to closed_grids, so that every grid opened is in     *)
(* exactly one of the two                                                    *)
C36_TrackerConsistent ==
    [][(<<executor, ret>>' # <<executor, ret>>) =>
          LET active == executor.active_grids
              closed == executor.closed_grids
              id == ret'.grid_id
              held == Cardinality(DOMAIN active) + Len(closed)
              held_after == Cardinality(DOMAIN executor'.active_grids)
                                + Len(executor'.closed_grids)
          IN  /\ \A direction \in {"LONG", "SHORT"} :
                     Cardinality({g \in DOMAIN executor'.active_grids :
                                     executor'.active_grids[g].direction = direction})
                         <= max_grids_per_side
              /\ ret'.details.status = "open_grid_position" =>
                     /\ ret'.result \in {0, 1}
                     /\ ret'.result = 0 => executor' = executor
                     /\ ret'.result = 1 =>
                            /\ id \notin DOMAIN active
                            /\ DOMAIN executor'.active_grids = DOMAIN active \cup {id}
                            /\ \A g \in DOMAIN active :
                                   executor'.active_grids[g] = active[g]
                            /\ executor'.closed_grids = closed
                            /\ held_after = held + 1
              /\ ret'.details.status = "close_grid_position" =>
                     /\ id \notin DOMAIN active =>
                            ret'.result = 0 /\ executor' = executor
                     /\ id \in DOMAIN active =>
                            /\ DOMAIN executor'.active_grids = DOMAIN active \ {id}
                            /\ Len(executor'.closed_grids) = Len(closed) + 1
                            /\ SubSeq(executor'.closed_grids, 1, Len(closed)) = closed
                            /\ LET moved == executor'.closed_grids[Len(closed) + 1]
                               IN  /\ moved.level = active[id].level
                                   /\ moved.direction = active[id].direction
                                   /\ moved.entry_price = active[id].entry_price
                                   /\ moved.open_time = active[id].open_time
                            /\ held_after = held
              /\ ret'.details.status = "manage_grid_positions" =>
                     /\ executor'.active_grids = active
                     /\ executor'.closed_grids = closed
      ]_vars

(* with four long layers active, one of them reopened after its close, the  *)
(* opening of a fifth long layer was refused                                *)
C36_Witness ==
    /\ ret.details.status = "open_grid_position"
    /\ ret.result = 0
    /\ ret.grid_id \notin DOMAIN executor.active_grids
    /\ ret.grid_id.direction = "LONG"
    /\ Cardinality({g \in DOMAIN executor.active_grids :
                       executor.active_grids[g].direction = "LONG"}) = max_grids_per_side
    /\ Len(executor.closed_grids) = 1

(* C5: a request for one more layer of a direction that already has 4 open  *)
(* layers is answered HOLD with lot 0 and no details, whatever the signal   *)
(* confidence and the level touched                                         *)
C5_FifthLayerHolds ==
    [][(ret' # ret /\ ret'.details.status = "manage_grid_positions") =>
          \A side \in {<<1, "LONG">>, <<0 - 1, "SHORT">>} :
              (ret'.signal = side[1] /\ OpenOnSide(side[2]) >= 4) =>
                  /\ ret'.grid_action = "HOLD"
                  /\ ret'.grid_lot_size = 0
                  /\ ret'.grid_id = NoGridId
      ]_vars

(* with layers 1 to 4 of the long side open and nothing closed yet, a buy   *)
(* request on a grid whose first level is touched was answered HOLD         *)
C5_Witness ==
    /\ OpenOnSide("LONG") = 4
    /\ [direction |-> "LONG", level |-> 0] \notin DOMAIN executor.active_grids
    /\ executor.closed_grids = <<>>
    /\ ret.details.status = "manage_grid_positions"
    /\ ret.signal = 1
    /\ ret.confidence = 1200
    /\ ret.details.grid_info.valid
    /\ FirstBuyLayer(ret.details.grid_info.buy_levels, 202000) = 1
    /\ ret.grid_action = "HOLD"

---------------------------------------------------------------------------
(* Two runs of the same backtest over the same bar array, each by a fresh   *)
(* bot and at its own pace on the wall clock: the run of the variables and   *)
(* the run of replay advance bar by bar together                             *)

ReplayHistories ==
    {Bar(202000, 100, 1500, 300, 0),
     Bar(201800, 100, 1500, 300, 0),
     Bar(202200, 100, 1500, 0, 0),
     Hist(warm_up + 1, 45, 202000, 100, 1500, <<200, 200>>, 0, 0, NoVotes)}

(* generate_signal and the rest of the bar on the objects of one run *)
RunBar(S, M, B, h, t) ==
    LET step(r) == [strategy |-> r.strategy, manager |-> r.manager, ret |-> r.dec,
                    backtest |-> BacktestBar(B, r.dec, h)]
    IN  step(GenerateSignal([strategy |-> S, executor |-> executor, manager |-> M], h, t))

(* both runs are started with the same configuration; the second may start *)
(* later in the day                                                        *)
StartReplay ==
    /\ backtest.pc = "idle"
    /\ replay.backtest.pc = "idle"
    /\ \E ts \in BOOLEAN : \E late \in 0..MaxTicks :
           /\ backtest' = [backtest EXCEPT !.pc = "running", !.trailing_stop = ts]
           /\ replay' = [replay EXCEPT !.backtest.pc = "running",
                                       !.backtest.trailing_stop = ts,
                                       !.now = ClockStart + late * TickMinutes]
    /\ UNCHANGED <<now, strategy, executor, manager, ret, live>>

(* the same bar in both runs *)
ReplayStep ==
    /\ backtest.pc = "running"
    /\ replay.backtest.pc = "running"
    /\ backtest.i < MaxBars
    /\ \E h \in ReplayHistories :
           \E a \in {RunBar(strategy, manager, backtest, h, now)} :
               \E b \in {RunBar(replay.strategy, replay.manager, replay.backtest, h,
                                replay.now)} :
                   /\ a.strategy.consecutive_skip <= MaxSkip
                   /\ b.strategy.consecutive_skip <= MaxSkip
                   /\ strategy' = a.strategy
                   /\ manager' = a.manager
                   /\ ret' = a.ret
                   /\ backtest' = a.backtest
                   /\ replay' = [now |-> replay.now, strategy |-> b.strategy,
                                 manager |-> b.manager, ret |-> b.ret,
                                 backtest |-> b.backtest]
    /\ UNCHANGED <<now, executor, live>>

(* the wall clock of the second run *)
ReplayTick ==
    /\ replay.now < ClockStart + MaxTicks * TickMinutes
    /\ replay' = [replay EXCEPT !.now = @ + TickMinutes]
    /\ UNCHANGED <<now, strategy, executor, manager, ret, backtest, live>>

(* the bar array is exhausted in both runs *)
FinishReplay ==
    /\ backtest.pc = "running"
    /\ replay.backtest.pc = "running"
    /\ backtest' = [ForceClose(backtest, backtest.positions) EXCEPT !.pc = "done"]
    /\ replay' = [replay EXCEPT !.backtest =
                     [ForceClose(@, @.positions) EXCEPT !.pc = "done"]]
    /\ UNCHANGED <<now, strategy, executor, manager, ret, live>>

NextReplay == Tick \/ ReplayTick \/ StartReplay \/ ReplayStep \/ FinishReplay

SpecReplay == Init /\ [][NextReplay]_vars

(* C9: two replays of the same bar array with the same configuration give   *)
(* the same per-bar signals, the same trade records and the same balance,    *)
(* whatever the wall clock and the pace of each run                          *)
C9_ReplayDeterministic ==
    /\ backtest.signals = replay.backtest.signals
    /\ backtest.trade_records = replay.backtest.trade_records
    /\ backtest.balance = replay.backtest.balance
    /\ backtest.pc = replay.backtest.pc

---------------------------------------------------------------------------
(* adx_analyzer.py: ADXAnalyzer.calculate_adx on a series of bars.  Wilder's *)
(* smoothing y[t] = ((period - 1) y[t-1] + x[t]) / period is kept exact: the *)
(* smoothed value at bar t is carried as an integer times period^(t-1), the  *)
(* same scale for the true range and both directional movements, so their    *)
(* ratios are exact.  +DI, -DI, DX and ADX are in 1/100                      *)

RECURSIVE PowPeriod(_)
PowPeriod(k) == IF k <= 0 THEN 1 ELSE period * PowPeriod(k - 1)

(* true range of bar t: max(high - low, |high - close[t-1]|, |low - close[t-1]|) *)
TrueRange(bars, t) ==
    IF t = 1 THEN bars[1].high - bars[1].low
    ELSE MaxI(bars[t].high - bars[t].low,
              MaxI(AbsI(bars[t].high - bars[t - 1].close),
                   AbsI(bars[t].low - bars[t - 1].close)))

PosDM(bars, t) ==
    IF t = 1 THEN 0
    ELSE LET up_move == bars[t].high - bars[t - 1].high
             down_move == bars[t - 1].low - bars[t].low
         IN  IF up_move > down_move /\ up_move > 0 THEN up_move ELSE 0

NegDM(bars, t) ==
    IF t = 1 THEN 0
    ELSE LET up_move == bars[t].high - bars[t - 1].high
             down_move == bars[t - 1].low - bars[t].low
         IN  IF down_move > up_move /\ down_move > 0 THEN down_move ELSE 0

(* ewm(alpha = 1/period, adjust = False).mean() of x at bar t, times period^(t-1) *)
RECURSIVE WilderScaled(_, _)
WilderScaled(x, t) ==
    IF t = 1 THEN x[1]
    ELSE (period - 1) * WilderScaled(x, t - 1) + PowPeriod(t - 2) * x[t]

(* 100 * dm_smooth / atr; 0/0 is nan and x/0 is inf *)
DirectionalIndex(dm_smooth, atr) ==
    IF atr = 0 THEN (IF dm_smooth = 0 THEN NaN ELSE INF)
    ELSE (100 * 100 * dm_smooth) \div atr

(* np.where(di_sum == 0, 0, 100 * abs(pos_di - neg_di) / di_sum) *)
DirectionalMovementIndex(pos_dm_smooth, neg_dm_smooth, atr) ==
    IF atr = 0 THEN NaN
    ELSE IF pos_dm_smooth + neg_dm_smooth = 0 THEN 0
    ELSE (100 * 100 * AbsI(pos_dm_smooth - neg_dm_smooth))
             \div (pos_dm_smooth + neg_dm_smooth)

(* the smoothing of DX: a nan input leaves the average where it was, the    *)
(* first number starts it                                                    *)
RECURSIVE WilderNa(_, _)
WilderNa(x, t) ==
    IF t = 0 THEN NaN
    ELSE LET prev == WilderNa(x, t - 1)
         IN  IF x[t] = NaN THEN prev
             ELSE IF prev = NaN THEN x[t]
             ELSE ((period - 1) * prev + x[t]) \div period

(* a fillna that leaves the series as it is *)
FillNaKeep(x) == x

(* Series.fillna(0) on one value *)
FillNa(x) == IF x = NaN THEN 0 ELSE x

CalculateAdx(bars) ==
    LET T == 1..Len(bars)
        tr == [t \in T |-> TrueRange(bars, t)]
        pos_dm == [t \in T |-> PosDM(bars, t)]
        neg_dm == [t \in T |-> NegDM(bars, t)]
        atr == [t \in T |-> WilderScaled(tr, t)]
        pos_dm_smooth == [t \in T |-> WilderScaled(pos_dm, t)]
        neg_dm_smooth == [t \in T |-> WilderScaled(neg_dm, t)]
        dx == [t \in T |-> DirectionalMovementIndex(pos_dm_smooth[t], neg_dm_smooth[t],
                                                     atr[t])]
    IN  [atr |-> atr, pos_dm_smooth |-> pos_dm_smooth, neg_dm_smooth |-> neg_dm_smooth,
         dx |-> dx,
         adx |-> [t \in T |-> FillNa(WilderNa(dx, t))],
         pos_di |-> [t \in T |-> FillNa(DirectionalIndex(pos_dm_smooth[t], atr[t]))],
         neg_di |-> [t \in T |-> FillNa(DirectionalIndex(neg_dm_smooth[t], atr[t]))]]

(* bars with low <= close <= high over three prices *)
AdxPrices == {200000, 200100, 200300}

AdxBars ==
    {b \in [high : AdxPrices, low : AdxPrices, close : AdxPrices] :
        b.low <= b.close /\ b.close <= b.high}

InitAdx ==
    /\ now = ClockStart
    /\ strategy = InitStrategy
    /\ executor = InitExecutor
    /\ manager = InitManager
    /\ backtest = InitBacktest
    /\ replay = InitReplay
    /\ live = InitLive
    /\ ret = [bars |-> <<>>, out |-> CalculateAdx(<<>>)]

(* calculate_adx on the series with one more bar *)
CallCalculateAdx ==
    /\ Len(ret.bars) < MaxAdxBars
    /\ \E b \in AdxBars :
           \E bars \in {Append(ret.bars, b)} :
               ret' = [bars |-> bars, out |-> CalculateAdx(bars)]
    /\ UNCHANGED <<now, strategy, executor, manager, backtest, replay, live>>

NextAdx == CallCalculateAdx

SpecAdx == InitAdx /\ [][NextAdx]_vars

(* C16: for every series with low <= close <= high every ADX, +DI and -DI    *)
(* returned by calculate_adx lies in [0, 100]; where the Wilder ATR is zero  *)
(* +DI, -DI and ADX are 0, where +DI + -DI is zero DX is 0: no nan and no    *)
(* infinity is returned                                                      *)
C16_AdxBounded ==
    \A t \in 1..Len(ret.bars) :
        /\ ret.out.adx[t] \in 0..(100 * 100)
        /\ ret.out.pos_di[t] \in 0..(100 * 100)
        /\ ret.out.neg_di[t] \in 0..(100 * 100)
        /\ ret.out.atr[t] = 0 =>
               /\ ret.out.pos_di[t] = 0
               /\ ret.out.neg_di[t] = 0
               /\ ret.out.adx[t] = 0
        /\ (ret.out.atr[t] > 0 /\ ret.out.pos_di[t] + ret.out.neg_di[t] = 0) =>
               ret.out.dx[t] = 0

(* a flat first bar (ATR 0, all indicators 0) followed by a gap up: +DI and *)
(* ADX are 100 on the second bar                                            *)
C16_Witness ==
    /\ Len(ret.bars) >= 2
    /\ ret.out.atr[1] = 0
    /\ ret.out.pos_di[1] = 0
    /\ ret.out.adx[1] = 0
    /\ ret.out.pos_di[2] = 100 * 100
    /\ ret.out.neg_di[2] = 0
    /\ ret.out.adx[2] = 100 * 100

---------------------------------------------------------------------------
(* The live loop of TradingBot.  The broker is the environment: it may fail *)
(* to give the account or the bars, its balance may trip the risk limits,   *)
(* it may have no tick and it may refuse an order.  copy_rates_from_pos     *)
(* numbers the bars from the present one, position 0, so the last row of    *)
(* the frame is the bar that opened at the last multiple of the timeframe.  *)
(* The quote stays at the latest close (bid = ask = close), so that         *)
(* manage_positions finds no profit to protect and no order is closed.      *)

LiveFrames ==
    {Hist(600, adx, 202000, 100, 1500, <<200, 200>>, z, 0, NoVotes) :
        adx \in {10, 45}, z \in {0, 300}}

(* one pass of "while self.is_running", ended by time.sleep(60) *)
MainLoopIteration ==
    /\ live.pc = "running"
    /\ now < ClockStart + MaxLiveMinutes
    /\ \E account \in {None, 10000, 20000} : \E risk_limit \in BOOLEAN :
       \E h \in LiveFrames \cup {Hist(0, 0, 0, 0, 0, <<0, 0>>, 0, 0, NoVotes)} :
       \E tick \in BOOLEAN : \E order_done \in BOOLEAN :
           \E r \in {GenerateSignal([strategy |-> strategy, executor |-> executor,
                                     manager |-> manager], h, now)} :
               LET bar == (now \div timeframe) * timeframe
                   dec == r.dec
                   count == Len(live.orders)
                   stops == CalculateStops(dec.signal, h.close, h.atr, dec.market_type,
                                           dec.details.grid_info)
                   lot_size == IF dec.market_type = "RANGING"
                               THEN MaxI(dec.grid_lot_size, 10)
                               ELSE CalculatePositionSize(account, dec.market_type) * 10
                   wanted == /\ tick
                             /\ count < max_positions /\ dec.signal # 0
                             /\ (dec.market_type = "RANGING" => dec.grid_action # "HOLD")
                   order == IF wanted /\ order_done
                            THEN [time |-> now, direction |-> dec.signal, lot |-> lot_size,
                                  price |-> h.close, sl |-> stops.stop_loss,
                                  tp |-> stops.take_profit]
                            ELSE NoOrder
                   same_bar == live.bar_time = bar
               IN  IF account = None \/ h.n < 100
                   THEN /\ now' = now + poll_minutes
                        /\ UNCHANGED <<strategy, manager, ret, live>>
                   ELSE IF risk_limit
                   THEN /\ live' = [live EXCEPT !.pc = "stopped"]
                        /\ UNCHANGED <<now, strategy, manager, ret>>
                   ELSE IF dec.raised # "none"
                   THEN /\ live' = [live EXCEPT !.pc = "raised"]
                        /\ strategy' = r.strategy
                        /\ manager' = r.manager
                        /\ ret' = dec
                        /\ UNCHANGED now
                   ELSE /\ r.strategy.consecutive_skip <= MaxSkip
                        /\ strategy' = r.strategy
                        /\ manager' = r.manager
                        /\ ret' = dec
                        /\ now' = now + poll_minutes
                        /\ live' = [live EXCEPT
                               !.orders = IF order = NoOrder THEN @ ELSE Append(@, order),
                               !.bar_time = bar,
                               !.evaluations = IF same_bar THEN @ + 1 ELSE 1,
                               !.placed = (IF same_bar THEN @ ELSE 0)
                                             + (IF order = NoOrder THEN 0 ELSE 1),
                               !.evaluated = TRUE,
                               !.last_row_time = bar,
                               !.count = count,
                               !.balance = account,
                               !.price = h.close,
                               !.atr = h.atr,
                               !.accepted = tick /\ order_done,
                               !.order = order]
    /\ UNCHANGED <<executor, backtest, replay>>

SpecLive == Init /\ [][MainLoopIteration]_vars

(* C26: each live evaluation feeds only fully closed bars into the pipeline: *)
(* the last bar of the history handed to generate_signal had closed, a whole *)
(* timeframe after its opening, by the time of the evaluation               *)
C26_OnlyClosedBars ==
    live.evaluated => live.last_row_time + timeframe <= now - poll_minutes

(* C27: the live loop evaluates the decision pipeline at most once per bar  *)
(* period, and places at most one order in it                                *)
C27_OncePerBar ==
    /\ live.evaluations <= 1
    /\ live.placed <= 1

(* C30: given the same decision, the same number of open positions and the  *)
(* same balance, the backtest opens a position on a bar exactly when the    *)
(* live loop places an order, with the same lot size, stop and target.      *)
(* Compared on the iterations whose order the broker would accept           *)
C30_BacktestAsLive ==
    (live.pc = "running" /\ live.evaluated /\ live.accepted) =>
        LET B == [InitBacktest EXCEPT !.balance = live.balance,
                                      !.positions = [k \in 1..live.count |-> NoOrder]]
            after == OpenPosition(B, ret, live.price, live.atr)
            pos == after.positions[Len(after.positions)]
        IN  /\ (Len(after.positions) = live.count + 1) = (live.order # NoOrder)
            /\ live.order # NoOrder =>
                   /\ pos.lot * 10 = live.order.lot
                   /\ pos.sl = live.order.sl
                   /\ pos.tp = live.order.tp

---------------------------------------------------------------------------
(* main.py: TradingBot.manage_positions over the positions the broker holds. *)
(* The broker is the environment: it quotes a price at every poll (bid and   *)
(* ask are taken equal), it closes a position whose stop or target the quote *)
(* has crossed, and it may refuse a modification.  Every position keeps, in  *)
(* "sent", the modifications the last poll sent for it, each with the stop   *)
(* the broker held when it was sent                                          *)

(* risk_manager.py: should_move_to_breakeven *)
ShouldMoveToBreakeven(position_type, entry_price, current_price, atr) ==
    LET profit == IF position_type = "LONG" THEN current_price - entry_price
                  ELSE entry_price - current_price
    IN  profit * 10 >= break_even_trigger * atr

(* risk_manager.py: calculate_trailing_stop; None when the stop stays *)
CalculateTrailingStop(position_type, entry_price, current_price, current_sl, atr) ==
    LET min_profit == min_profit_move_sl * atr
        profit == IF position_type = "LONG" THEN current_price - entry_price
                  ELSE entry_price - current_price
        new_sl == IF position_type = "LONG" THEN current_price - (15 * atr) \div 10
                  ELSE current_price + (15 * atr) \div 10
    IN  IF profit > min_profit
           /\ (IF position_type = "LONG" THEN new_sl > current_sl ELSE new_sl < current_sl)
        THEN new_sl
        ELSE None

(* the body of "for position in positions": position is the snapshot that   *)
(* positions_get returned, so position.sl stays what it was before the loop *)
(* while the broker's stop follows every accepted modification              *)
ManageLivePosition(position, current_price, atr, trailing_stop, be_done, trail_done) ==
    LET pos_type == IF position.type = 0 THEN "LONG" ELSE "SHORT"
        to_be == ShouldMoveToBreakeven(pos_type, position.price_open, current_price, atr)
        be_sent == IF to_be
                   THEN <<[kind |-> "breakeven", was |-> position.sl,
                           new_sl |-> position.price_open]>>
                   ELSE <<>>
        broker_sl == IF to_be /\ be_done THEN position.price_open ELSE position.sl
        new_sl == IF trailing_stop
                  THEN CalculateTrailingStop(pos_type, position.price_open, current_price,
                                             position.sl, atr)
                  ELSE None
        trails == /\ new_sl # None /\ new_sl # 0
                  /\ \/ pos_type = "LONG" /\ new_sl > position.sl
                     \/ pos_type = "SHORT" /\ new_sl < position.sl
        trail_sent == IF trails
                      THEN <<[kind |-> "trailing", was |-> broker_sl, new_sl |-> new_sl]>>
                      ELSE <<>>
    IN  [position EXCEPT !.sl = IF trails /\ trail_done THEN new_sl ELSE broker_sl,
                         !.sent = be_sent \o trail_sent]

(* the bot starts with RISK_CONFIG as configured and its first order is     *)
(* filled at the quoted price with the stops of calculate_stops             *)
OpenLivePosition ==
    /\ live.pc = "running"
    /\ live.positions = <<>>
    /\ now < ClockStart + MaxLiveMinutes
    /\ \E signal \in {1, 0 - 1} : \E atr \in {100, 200} : \E ts \in BOOLEAN :
           LET price == 202000
               stops == CalculateStops(signal, price, atr, "RANGING", NoGrid)
           IN  live' = [live EXCEPT
                   !.trailing_stop = ts,
                   !.positions = <<[type |-> IF signal = 1 THEN 0 ELSE 1,
                                    price_open |-> price, sl |-> stops.stop_loss,
                                    tp |-> stops.take_profit, sent |-> <<>>]>>]
    /\ now' = now + poll_minutes
    /\ UNCHANGED <<strategy, executor, manager, ret, backtest, replay>>

(* one poll: the broker has closed what the quote crossed, manage_positions *)
(* goes over the rest.  A latest ATR of NaN is replaced by 10 (USD)          *)
CallManagePositions ==
    /\ live.pc = "running"
    /\ live.positions # <<>>
    /\ now < ClockStart + MaxLiveMinutes
    /\ \E move \in {0 - 100, 0, 60, 120, 200} : \E latest_atr \in {100, NaN} :
       \E be_done \in BOOLEAN : \E trail_done \in BOOLEAN :
           LET position == live.positions[1]
               long == position.type = 0
               current_price == IF long THEN position.price_open + move
                                ELSE position.price_open - move
               atr == IF latest_atr = NaN THEN 1000 ELSE latest_atr
               crossed == IF long
                          THEN current_price <= position.sl \/ current_price >= position.tp
                          ELSE current_price >= position.sl \/ current_price <= position.tp
           IN  live' = [live EXCEPT !.positions =
                            IF crossed THEN <<>>
                            ELSE <<ManageLivePosition(position, current_price, atr,
                                                      live.trailing_stop, be_done,
                                                      trail_done)>>]
    /\ now' = now + poll_minutes
    /\ UNCHANGED <<strategy, executor, manager, ret, backtest, replay>>

SpecManage == Init /\ [][OpenLivePosition \/ CallManagePositions]_vars

(* C31: manage_positions never sends a stop modification that loosens a     *)
(* position's stop: every modification sent for a long is at or above the   *)
(* stop the broker holds when it is sent, every one sent for a short at or  *)
(* below it, the breakeven move after a trailing update included            *)
C31_StopOnlyTightens ==
    \A k \in 1..Len(live.positions) :
        LET position == live.positions[k]
        IN  \A s \in 1..Len(position.sent) :
                IF position.type = 0
                THEN position.sent[s].new_sl >= position.sent[s].was
                ELSE position.sent[s].new_sl <= position.sent[s].was

---------------------------------------------------------------------------
(* stops_implementation.py: check_partial_take_profit called again and     *)
(* again on one position as the price moves.  close_ratio is in percent     *)

(* a check that does not remember the 50% close *)
CheckPartialTakeProfitForgetful(position, current_price) ==
    LET current_profit == IF position.direction = 1
                          THEN current_price - position.entry_price
                          ELSE position.entry_price - current_price
        target_profit == IF position.direction = 1
                         THEN position.take_profit - position.entry_price
                         ELSE position.entry_price - position.take_profit
        reached(pct) == IF target_profit > 0
                        THEN current_profit * 100 >= pct * target_profit
                        ELSE current_profit * 100 <= pct * target_profit
    IN  IF target_profit = 0 THEN [close_ratio |-> 0, position |-> position]
        ELSE IF reached(100) THEN [close_ratio |-> 100, position |-> position]
        ELSE IF reached(80) THEN [close_ratio |-> 50, position |-> position]
        ELSE [close_ratio |-> 0, position |-> position]

(* check_partial_take_profit: the ratio to close and the position afterwards; *)
(* profit_ratio = current_profit / target_profit is compared by its sign      *)
CheckPartialTakeProfit(position, current_price) ==
    LET current_profit == IF position.direction = 1
                          THEN current_price - position.entry_price
                          ELSE position.entry_price - current_price
        target_profit == IF position.direction = 1
                         THEN position.take_profit - position.entry_price
                         ELSE position.entry_price - position.take_profit
        reached(pct) == IF target_profit > 0
                        THEN current_profit * 100 >= pct * target_profit
                        ELSE current_profit * 100 <= pct * target_profit
    IN  IF target_profit = 0 THEN [close_ratio |-> 0, position |-> position]
        ELSE IF reached(100) THEN [close_ratio |-> 100, position |-> position]
        ELSE IF reached(80)
        THEN (IF ~position.partial_tp_triggered
              THEN [close_ratio |-> 50,
                    position |-> [position EXCEPT !.partial_tp_triggered = TRUE]]
              ELSE [close_ratio |-> 0, position |-> position])
        ELSE [close_ratio |-> 0, position |-> position]

(* the first call is given a new position, each later call the position the *)
(* call before left; halves counts the 50% closes returned for it           *)
CallCheckPartialTakeProfit ==
    /\ \E position \in (IF "position" \in DOMAIN ret THEN {ret.position}
                         ELSE [entry_price : {200000, 201000},
                               take_profit : {199000, 200000, 201000, 202000},
                               direction : {0 - 1, 1},
                               partial_tp_triggered : {FALSE}]) :
       \E current_price \in {199000, 199200, 199500, 200000, 200800, 200900, 201000,
                             201800, 202000, 202500} :
           \E r \in {CheckPartialTakeProfit(position, current_price)} :
               ret' = [returned |-> TRUE, raised |-> "none", position |-> r.position,
                       before |-> position, current_price |-> current_price,
                       close_ratio |-> r.close_ratio,
                       halves |-> (IF "halves" \in DOMAIN ret THEN ret.halves ELSE 0)
                                     + (IF r.close_ratio = 50 THEN 1 ELSE 0)]
    /\ UNCHANGED <<now, strategy, executor, manager, backtest, replay, live>>

SpecPartial == Init /\ [][CallCheckPartialTakeProfit]_vars

(* C29: over the calls for one position a 50% close is returned at most    *)
(* once, on the first call whose profit ratio is in [0.8, 1.0); a full      *)
(* close is returned on every call with ratio >= 1.0; 0 is returned          *)
(* whenever the target distance is 0                                         *)
C29_PartialOnce ==
    ret.returned =>
        LET pos == ret.before
            current == IF pos.direction = 1 THEN ret.current_price - pos.entry_price
                       ELSE pos.entry_price - ret.current_price
            target == IF pos.direction = 1 THEN pos.take_profit - pos.entry_price
                      ELSE pos.entry_price - pos.take_profit
            full == IF target > 0 THEN current >= target ELSE current <= target
            most == IF target > 0 THEN current * 10 >= target * 8
                    ELSE current * 10 <= target * 8
        IN  /\ ret.halves <= 1
            /\ target = 0 => ret.close_ratio = 0
            /\ target # 0 =>
                   /\ (ret.close_ratio = 100) = full
                   /\ (ret.close_ratio = 50)
                          = (most /\ ~full /\ ~pos.partial_tp_triggered)

(* the 50% close was returned earlier and the price is again between 80%   *)
(* and 100% of the target: nothing is closed                                 *)
C29_Witness ==
    /\ ret.returned
    /\ ret.before.partial_tp_triggered
    /\ ret.before.direction = 1
    /\ ret.before.entry_price = 200000
    /\ ret.before.take_profit = 201000
    /\ ret.current_price = 200900
    /\ ret.close_ratio = 0
    /\ ret.halves = 1

---------------------------------------------------------------------------
(* strategies.py: generate_combined_signal called on the latest rows of a   *)
(* frame.  A frame of calculate_all_indicators lacks the EMA columns the    *)
(* trend strategy reads; a frame that carries them as well is voted on       *)

VoteColumns ==
    {CalculateAllIndicators, CalculateAllIndicators \cup {"EMA_20", "EMA_50", "EMA_200"}}

(* the rows a new bar can put last in the frame; the row before it is the *)
(* row that was last at the call before                                   *)
LatestRows(prev_bb_position) ==
    [ema : {<<3, 2, 1>>, <<1, 2, 3>>, <<2, 3, 1>>},
     rsi : {30, 50, 70},
     macd_hist : {0 - 1, 1},
     bb_position : {0 - 10, 10, 50, 90, 110},
     prev_bb_position : {prev_bb_position},
     atr_pct : {40, 120},
     mom : {0 - 1, 1},
     stoch_k : {40, 60},
     stoch_d : {50}]

InitVotes ==
    /\ now = ClockStart
    /\ strategy = InitStrategy
    /\ executor = InitExecutor
    /\ manager = InitManager
    /\ backtest = InitBacktest
    /\ replay = InitReplay
    /\ live = InitLive
    /\ ret = NoReturn

CallGenerateCombinedSignal ==
    /\ \E columns \in (IF "columns" \in DOMAIN ret THEN {ret.columns} ELSE VoteColumns) :
       \E latest \in LatestRows(IF "latest" \in DOMAIN ret
                                 THEN ret.latest.bb_position ELSE 50) :
           \E votes \in {StrategyVotes(latest)} :
               \E r \in {GenerateCombinedSignal(columns, votes)} :
                   ret' = [returned |-> r.raised = "none", raised |-> r.raised,
                           signal |-> r.signal, columns |-> columns, latest |-> latest,
                           votes |-> votes, signal_details |-> SignalDetails(votes)]
    /\ UNCHANGED <<now, strategy, executor, manager, backtest, replay, live>>

NextVotes == CallGenerateCombinedSignal

SpecVotes == InitVotes /\ [][NextVotes]_vars

RollingAtrPct(latest) == (1900 * latest.atr_pct) \div (1800 + latest.atr_pct)

(* C18: whenever the current ATR is below vol_threshold of its rolling mean  *)
(* the voting engine reports all four votes as sleeping and returns signal 0, *)
(* whatever the four votes are                                               *)
C18_SleepFilter ==
    (ret.returned /\ RollingAtrPct(ret.latest) < vol_threshold) =>
        /\ ret.signal = 0
        /\ \A k \in 1..4 : ret.signal_details[k] = "sleeping"

---------------------------------------------------------------------------
(* Properties of generate_signal, checked under Spec *)

(* a call of generate_signal has ended, by a return or by an exception *)
Called == ret.returned \/ ret.raised # "none"

(* C1: for every history with fewer than 80 bars generate_signal returns a   *)
(* decision with market_type RANGING, confidence 0 and signal 0, raises no   *)
(* exception and does not run the ADX classifier                             *)
C1_ShortHistoryDefault ==
    (Called /\ ret.n < min_bars) =>
        /\ ret.returned
        /\ ret.raised = "none"
        /\ ret.market_type = "RANGING"
        /\ ret.confidence = 0
        /\ ret.signal = 0
        /\ ~ret.classifier_ran

(* C2: in both regimes the decision returned by generate_signal has signal   *)
(* in {-1, 0, 1} and confidence in [0, 1]                                    *)
C2_DecisionInRange ==
    ret.returned =>
        /\ ret.signal \in {0 - 1, 0, 1}
        /\ 0 <= ret.confidence
        /\ ret.confidence <= Milli

(* C3: for every history of at least 80 bars whose columns come from         *)
(* calculate_all_indicators, generate_signal returns a decision in the       *)
(* RANGING and in the TRENDING branch and never ends in an exception         *)
C3_NeverRaises ==
    (Called /\ ret.n >= min_bars) => (ret.returned /\ ret.raised = "none")

(* the decision came out of the multi-condition gate of the RANGING path *)
Evaluated == ret.returned /\ ret.details.status = "evaluated"

(* the number of the five gate conditions the returned details report as met, *)
(* the first three recomputed from the values reported with them              *)
GatesMet ==
    LET d == ret.details
        gates == <<d.grid_signal # 0 /\ d.grid_confidence > 500,
                   d.mr_signal = d.grid_signal /\ d.mr_signal # 0 /\ d.mr_strength > 250,
                   d.win_probability > 650,
                   d.reversal_ok,
                   d.time_ok>>
    IN  Cardinality({k \in 1..5 : gates[k]})

(* C11: generate_professional_signal returns a non-zero signal only when at *)
(* least 2 of the 5 gate conditions hold on the bar, and a non-zero signal   *)
(* returned is the grid signal                                               *)
C11_TwoOfFive ==
    (Evaluated /\ ret.signal # 0) =>
        /\ GatesMet >= 2
        /\ ret.details.conditions_met = GatesMet
        /\ ret.signal = ret.details.grid_signal

(* a signal was returned on exactly two conditions *)
C11_Witness ==
    /\ Evaluated
    /\ ret.signal # 0
    /\ GatesMet = 2

(* C12: every grid build_dynamic_grid returns has buy_levels strictly        *)
(* decreasing and sell_levels strictly increasing, consecutive levels exactly *)
(* grid_width apart, also when levels are snapped to key prices or clipped    *)
C12_GridMonotoneSpaced ==
    strategy.dynamic_grid.valid =>
        LET g == strategy.dynamic_grid
        IN  /\ \A k \in 1..(Len(g.buy_levels) - 1) :
                   /\ g.buy_levels[k] > g.buy_levels[k + 1]
                   /\ g.buy_levels[k] - g.buy_levels[k + 1] = g.grid_width
            /\ \A k \in 1..(Len(g.sell_levels) - 1) :
                   /\ g.sell_levels[k] < g.sell_levels[k + 1]
                   /\ g.sell_levels[k + 1] - g.sell_levels[k] = g.grid_width

(* the last call went through the gate on a bar for which build_dynamic_grid *)
(* returned no grid: with 80 bars or more that is a side with fewer than     *)
(* min_layers levels                                                         *)
NoGridBar(r) ==
    /\ r.details.status = "evaluated"
    /\ ~r.details.grid_info.valid

(* C13: when a side of the grid has fewer than 4 levels there is no grid,    *)
(* the grid signal and the final signal of the bar are 0, the executor holds, *)
(* nothing is raised, the bar counts as skipped and does not start a         *)
(* cooldown, so the next bar is evaluated                                    *)
C13_FewLayersHold ==
    [][/\ (ret' # ret /\ NoGridBar(ret')) =>
              /\ ret'.returned
              /\ ret'.raised = "none"
              /\ ret'.details.grid_signal = 0
              /\ ret'.signal = 0
              /\ ret'.grid_action = "HOLD"
              /\ ret'.grid_lot_size = 0
              /\ ~strategy'.dynamic_grid.valid
              /\ strategy'.last_trade_time = strategy.last_trade_time
              /\ strategy'.consecutive_skip = strategy.consecutive_skip + 1
       /\ (NoGridBar(ret) /\ ret' # ret /\ ret'.market_type = "RANGING"
             /\ ret'.n >= min_bars) =>
              ret'.details.status # "cooldown"
      ]_vars

(* two bars in a row had no grid; on the second the gate had two conditions *)
(* met (reversal and time of day) and the signal was still 0                 *)
C13_Witness ==
    /\ NoGridBar(ret)
    /\ ret.returned
    /\ ret.signal = 0
    /\ ret.grid_action = "HOLD"
    /\ ret.details.conditions_met >= 2
    /\ strategy.consecutive_skip >= 2

(* the last call went through the gate on a constant series: the 40-bar     *)
(* range and the ATR are both 0, so the grid has total_range 0               *)
ConstantSeriesBar ==
    /\ Evaluated
    /\ ret.details.grid_info.valid
    /\ ret.details.grid_info.total_range = 0

(* C14: a constant price series yields signal 0 from the grid pipeline on    *)
(* every bar: the 0/0 forms of the z-score, the autocorrelation, the ATR     *)
(* ratio and the zero grid width never give a buy or sell signal             *)
C14_ConstantSeriesFlat ==
    ConstantSeriesBar =>
        /\ ret.details.grid_signal = 0
        /\ ret.signal = 0

(* C15: the regime is RANGING exactly when the latest ADX < 20 and TRENDING  *)
(* otherwise, strong exactly when ADX >= 40; while ADX stays >= 40 from one  *)
(* bar to the next the classification stays TRENDING/strong; analyze_market  *)
(* agrees with identify_market_type on type and strength                     *)
C15_RegimeByAdx ==
    [][(ret' # ret /\ ret'.classifier_ran) =>
          /\ (ret'.market_type = "RANGING") = (ret'.adx < 20)
          /\ (ret'.market_type = "TRENDING") = (ret'.adx >= 20)
          /\ (ret'.market_desc = "strong") = (ret'.adx >= 40)
          /\ (ret'.market_desc = "starting") = (ret'.adx >= 20 /\ ret'.adx < 40)
          /\ manager'.current_market_type = ret'.market_type
          /\ manager'.last_adx = ret'.adx
          /\ IdentifyMarketType(ret'.adx).market_type = ret'.market_type
          /\ (IdentifyMarketType(ret'.adx).strength = "strong")
                 = (ret'.market_desc = "strong")
          /\ (ret.classifier_ran /\ ret.adx >= 40 /\ ret'.adx >= 40) =>
                 /\ ret'.market_type = "TRENDING"
                 /\ ret'.market_desc = "strong"
      ]_vars

(* a bar with ADX exactly 40 was classified TRENDING/strong *)
C15_Witness ==
    /\ ret.classifier_ran
    /\ ret.adx = 40
    /\ ret.market_type = "TRENDING"
    /\ ret.market_desc = "strong"
    /\ manager.current_market_type = "TRENDING"

(* a step of CallGenerateSignal that reached generate_professional_signal    *)
(* with enough bars: the clock stands still and a RANGING result is stored   *)
RangingCallStep ==
    /\ now' = now
    /\ <<strategy, manager, ret>>' # <<strategy, manager, ret>>
    /\ ret'.market_type = "RANGING"
    /\ ret'.n >= min_bars

(* C33: consecutive_skip counts the grid evaluations since the last non-zero *)
(* grid signal: an evaluation without a grid signal adds exactly 1, a grid   *)
(* signal resets it to 0, a call rejected for cooldown or insufficient data  *)
(* leaves it alone; and the minimum touch confidence used by a loop is 0.45  *)
(* exactly when consecutive_skip is 5 or more as the loop runs, 0.55         *)
(* otherwise (the buy loop resets the counter when its level fires)          *)
C33_SkipCounter ==
    [][(RangingCallStep /\ ret'.returned) =>
          LET skip == strategy.consecutive_skip
              d == ret'.details
              g == d.grid_info
              b == FirstTouchedBuy(g.buy_levels, g.center)
              buy_fired ==
                  /\ b # 0
                  /\ TouchConfidence(g.buy_levels[b] - g.center, g.grid_width, b,
                                     Len(g.buy_levels)) >= d.buy_min
              skip_then == IF buy_fired THEN 0 ELSE skip
          IN  /\ d.status \in {"cooldown", "insufficient"} =>
                     strategy'.consecutive_skip = skip
              /\ d.status = "evaluated" =>
                     /\ strategy'.consecutive_skip =
                            IF d.grid_signal # 0 THEN 0 ELSE skip + 1
                     /\ d.buy_min # None =>
                            d.buy_min = IF skip >= 5 THEN 450 ELSE 550
                     /\ d.sell_min # None =>
                            d.sell_min = IF skip_then >= 5 THEN 450 ELSE 550]_vars

(* the fifth evaluation in a row without a grid signal was followed by one   *)
(* whose buy loop used 0.45 and whose grid signal reset the counter          *)
C33_Witness ==
    /\ ret.returned
    /\ ret.details.status = "evaluated"
    /\ ret.details.buy_min = 450
    /\ ret.details.grid_signal # 0
    /\ strategy.consecutive_skip = 0

(* the last non-zero signal was returned less than min_trade_interval ago *)
InCooldown ==
    /\ strategy.last_trade_time # None
    /\ now - strategy.last_trade_time < min_trade_interval

(* C10: a non-zero signal returned at time t is stamped t; every call before *)
(* t + min_trade_interval returns signal 0 and confidence 0 from the         *)
(* cooldown exit; a call at or after t + min_trade_interval is not stopped   *)
(* by the cooldown                                                           *)
C10_Cooldown ==
    [][RangingCallStep =>
          /\ InCooldown =>
                /\ ret'.details.status = "cooldown"
                /\ ret'.signal = 0
                /\ ret'.confidence = 0
                /\ strategy' = strategy
          /\ ~InCooldown => ret'.details.status # "cooldown"
          /\ ret'.signal # 0 => strategy'.last_trade_time = now]_vars

(* a call made 10 minutes after a signal was answered by the cooldown exit *)
C10_Witness ==
    /\ ret.details.status = "cooldown"
    /\ now - strategy.last_trade_time = TickMinutes

====
